---- MODULE Spec2Model ----
(***************************************************************************)
(* led-matrix-battery: the device controller (command lock, brightness),   *)
(* the serial transport, the controller registry, the breather loop and    *)
(* the power monitor, as state machines over one LED matrix device.        *)
(*                                                                         *)
(* Granularity: one step per blocking call (serial open/write, serial      *)
(* close, lock acquisition, sound playback, sleep, battery poll); the pure *)
(* statements between two blocking calls belong to the step that follows.  *)
(* The lazy creation of the command lock is split at its test and its      *)
(* assignment, the two places a thread switch changes the outcome.         *)
(***************************************************************************)
EXTENDS Integers, Sequences, FiniteSets, TLC

VARIABLES
    \* ---- transport and device
    wire,          \* threads that hold an open serial connection to the device
    wireLog,       \* controller calls in the order their commands were written (runs merged)
    devAnimating,  \* the firmware's animate flag
    devBrightness, \* the value of the last Brightness command written (-1: none yet)
    faults,        \* I/O failures injected so far
    DISCONNECTED_DEVS, \* constants.DISCONNECTED_DEVS, the list of disconnected identities
    portOk,        \* device identity -> its serial port can be opened and written
    spc,           \* thread -> where its send_command_raw call stands, and how it ended
    sends,         \* thread -> send_command_raw calls made
    failedIds,     \* identities a send has failed on with an I/O error
    \* ---- LEDMatrixController (is_matrix_forge)
    thread_safe,   \* _thread_safe
    cmd_lock,      \* _cmd_lock: 0 is None, otherwise the id of an RLock
    nlocks,        \* RLock objects created so far
    rlocks,        \* RLock id -> [owner, count]
    stack,         \* thread -> call stack of controller method frames
    calls,         \* thread -> top-level controller calls made
    brightness,    \* __brightness: -1 is None
    grid,          \* __grid: -1 is None
    cexc,          \* thread -> exception that ended its last controller call
    \* ---- controller construction
    registry,      \* MultitonMeta: device identity -> controller object (0: none)
    regLock,       \* MultitonMeta: the thread inside the creation lock
    instances,     \* the controller objects that exist, [id, dev]
    rpc,           \* thread -> where its construction stands
    got,           \* thread -> the controllers its constructions returned
    \* ---- PowerMonitor
    running,       \* _running
    last_state,    \* __last_state: "unknown" is None
    cycles,        \* __cycles
    mpc,           \* thread -> where it stands in start() / run() / stop()
    mloc,          \* thread -> locals of its call
    mexc,          \* thread -> exception its last start() / stop() raised to the caller
    cur,           \* thread -> what its polling cycle in progress has read and done
    lastReading,   \* the battery reading polled before the current one
    polls,         \* battery polls made
    interrupts,    \* KeyboardInterrupts delivered
    check_interval,  \* __check_interval, the field the battery_check_interval property reads
    stored_interval, \* __battery_check_interval, the field __init__ writes
    slept,           \* seconds the loop slept after its last cycle (0: it has not slept)
    \* ---- Breather
    breathing,     \* _breathing
    thread,        \* _thread: "none" or the loop thread start() created last
    initial_brightness, \* __initial_brightness
    bpc,           \* loop thread -> where it stands: "off", "enter", "loop", "done"
    current,       \* loop thread -> _breath_loop's current
    going_up,      \* loop thread -> _breath_loop's going_up
    interval,      \* loop thread -> _breath_loop's interval, 1.0 / fps
    ticks,         \* loop thread -> passes of the while body it has made
    min_brightness, max_brightness, step, fps,
    bcall,         \* thread -> its call of the Breather's interface in progress, or its last
    startBrightness, \* the controller's brightness when start() was last called (-1: never)
    stopped,       \* a stop() has returned and no start() was called since
    \* ---- display: render_matrix and the staged greyscale patterns
    matrix,        \* the matrix given to render_matrix: the set of its non-zero cells
    rendering,     \* the render call in progress, or the last one
    written,          \* the commands that call has written to the serial connection
    \* ---- Grid
    gridObj,       \* a Grid object: _width, _height, _fill_value, _grid
    gridOp,        \* the last operation on it: what it raised and what it returned
    \* ---- Frame
    frameObj       \* a Frame object, and the last operation on it

devVars == <<wire, wireLog, devAnimating, devBrightness, faults>>
txVars  == <<DISCONNECTED_DEVS, portOk, spc, sends, failedIds>>
ctlVars == <<thread_safe, cmd_lock, nlocks, rlocks, stack, calls, brightness, grid, cexc>>
regVars == <<registry, regLock, instances, rpc, got>>
monVars == <<running, last_state, cycles, mpc, mloc, mexc, cur, lastReading, polls,
             interrupts>>
ivVars  == <<check_interval, stored_interval>>
brCfg   == <<min_brightness, max_brightness, step, fps>>
brLoop  == <<bpc, current, going_up, interval, ticks>>
brApi   == <<bcall, startBrightness, stopped>>
brVars  == <<breathing, thread, initial_brightness, brCfg, brLoop, brApi>>
dispVars == <<matrix, rendering, written>>
objVars == <<gridObj, gridOp>>
frmVars == <<frameObj>>
vars    == <<devVars, txVars, ctlVars, regVars, monVars, ivVars, slept, brVars, dispVars, objVars, frmVars>>

\* what the steps of one component leave alone
notCtl  == <<grid, txVars, regVars, monVars, ivVars, slept, brVars, dispVars, objVars, frmVars>>
notReg  == <<devVars, txVars, ctlVars, monVars, ivVars, slept, brVars, dispVars, objVars, frmVars>>
notRun  == <<wireLog, devBrightness, txVars, ctlVars, regVars, ivVars, brVars, dispVars, objVars, frmVars>>
notMon  == <<notRun, slept>>
notTx   == <<devVars, ctlVars, regVars, monVars, ivVars, slept, brVars, dispVars, objVars, frmVars>>
notBr   == <<devVars, txVars, regVars, monVars, ivVars, slept, thread_safe, cmd_lock, nlocks, rlocks, calls,
             brightness, grid, cexc, dispVars, objVars, frmVars>>
notDisp == <<devVars, txVars, ctlVars, regVars, monVars, ivVars, slept, brVars, objVars, frmVars>>
notObj  == <<devVars, txVars, ctlVars, regVars, monVars, ivVars, slept, brVars, dispVars, frmVars>>
notFrm  == <<devVars, txVars, ctlVars, regVars, monVars, ivVars, slept, brVars, matrix, rendering, objVars>>

----------------------------------------------------------------------------
(* Bounds *)
MaxCalls          == 1   \* top-level controller calls per thread
MaxFaults         == 1   \* injected serial I/O failures
MaxIdentifyCycles == 1   \* largest `cycles` argument given to identify()

(* Program constants *)
FACTORY_DEFAULT_BRIGHTNESS == 75
HwMax                      == 255

CtlThreads == {"c1", "c2"}      \* threads calling controller methods directly
BreathThread == "br"            \* the Breather's background thread
BreathThreads == {BreathThread, "br2"}   \* the threads start() can create
Callers    == CtlThreads \cup BreathThreads
None       == "none"

----------------------------------------------------------------------------
(* Transport: led_matrix/helpers/__init__.py *)

\* the helpers module with `from ..constants import DISCONNECTED_DEVS` added
DisconnectedDevsImported == TRUE

\* The module imports FWK_MAGIC and RESPONSE_SIZE only; the global
\* DISCONNECTED_DEVS that disconnect_dev reads is not bound in it.
DisconnectedDevsBound == FALSE

\* disconnect_dev(dev): the exception it ends with ("none": it returns)
disconnect_dev == IF DisconnectedDevsBound THEN None ELSE "NameError"

\* send_command_raw when serial.Serial / write / read raises IOError:
\* the handler calls disconnect_dev and returns None.
send_command_raw_failed == disconnect_dev

\* get_animate / LEDMatrixController.animating: bool(res[0]) on the response
\* of a failed send (None) is a TypeError.
ResponseExc(isQuery) == IF isQuery THEN "TypeError" ELSE None

\* the exception a failed send surfaces to the caller of the command function
SendFailure(isQuery) ==
    IF send_command_raw_failed # None THEN send_command_raw_failed
    ELSE ResponseExc(isQuery)

\* the firmware's animate flag after a command
DevAfter(cmd, a, anim) == IF cmd = "Animate" THEN (a = 1) ELSE anim

\* wireLog with the call appended; consecutive commands of one call are one run
LogAppend(log, call) ==
    IF Len(log) > 0 /\ log[Len(log)] = call THEN log ELSE Append(log, call)

----------------------------------------------------------------------------
(* common/helpers.py *)

\* int(round(percent * max_value / 100)): Python rounds halves to even
percentage_to_value(percent, max_value) ==
    LET n == percent * max_value
        q == n \div 100
        r == n % 100
    IN  IF r > 50 \/ (r = 50 /\ q % 2 = 1) THEN q + 1 ELSE q

\* every percentage passes the range check
AnyPercent(p) == TRUE

\* lines 15-16: percent < 0 or percent > 100 raises ValueError
ValidPercent(p) == p >= 0 /\ p <= 100

\* a Python value given to a setter: its type and, for numbers, its value;
\* Val("str", n) is the string "n%"
Val(ty, v) == [ty |-> ty, v |-> v]

IntVal(v) == Val("int", v)

\* lines 12-13: isinstance(percent, (int, float)) fails
PercentTypeError(x) == x.ty \notin {"int", "float"}

----------------------------------------------------------------------------
(* LEDMatrixController: is_matrix_forge/led_matrix/controller/controller.py *)

BlankGrid == 0
NoGrid    == -1     \* __grid = None
Grids     == {0, 1}
BrightnessInputs == {0, 40, 101}
Percents  == {50}

Synchronized(m) ==
    m \in {"animate", "draw_grid", "draw_pattern", "draw_percentage", "clear",
           "halt_animation", "identify", "set_brightness"}

Op(o, m, a, b) == [op |-> o, m |-> m, a |-> a, b |-> b]

RECURSIVE IdentifyMessages(_)
IdentifyMessages(n) ==
    IF n = 0 THEN <<>>
    ELSE <<Op("send", "ShowString", 0, 0), Op("send", "ShowString", 1, 0)>>
         \o IdentifyMessages(n - 1)

\* the body of method m called with arguments a, b, as a list of operations
Ops(m, a, b) ==
    CASE m = "animate"         -> <<Op("send", "Animate", a, 0)>>
      [] m = "draw"            -> <<Op("call", "draw_grid", a, 0)>>
      [] m = "draw_grid"       -> <<Op("send", "Draw", a, 0)>>
      [] m = "draw_pattern"    -> <<Op("send", "Pattern", a, 0)>>
      [] m = "draw_percentage" ->
            IF ~ValidPercent(a) THEN <<Op("raise", "ValueError", 0, 0)>>
            ELSE (IF b = 1 THEN <<Op("call", "clear", 0, 0)>> ELSE <<>>)
                 \o <<Op("send", "Percentage", a, 0)>>
      [] m = "clear"           -> <<Op("call", "draw_grid", BlankGrid, 0)>>
      [] m = "halt_animation"  -> <<Op("query", "AnimateQ", 0, 0),
                                    Op("callif", "animate", 0, 0)>>
      [] m = "identify"        ->
            (IF a = 0 THEN <<Op("call", "clear", 0, 0)>> ELSE <<>>)
            \o IdentifyMessages(b)
            \o (IF a = 0 THEN <<Op("call", "clear", 0, 0)>> ELSE <<>>)
      [] m = "set_brightness"  ->
            IF PercentTypeError(a) THEN <<Op("raise", "TypeError", 0, 0)>>
            ELSE IF ~ValidPercent(a.v) THEN <<Op("raise", "ValueError", 0, 0)>>
            ELSE <<Op("send", "Brightness", percentage_to_value(a.v, HwMax), 0)>>
                 \o (IF b = 0 THEN <<Op("store", "brightness", a.v, 0)>> ELSE <<>>)
      [] m = "brightness="     -> <<Op("call", "set_brightness", a, 1),
                                    Op("store", "brightness", a.v, 0)>>

Frame(m, a, b) ==
    [m |-> m, a |-> a, b |-> b, ip |-> 1, lk |-> 0, held |-> FALSE, r |-> -1,
     pc |-> IF Synchronized(m) THEN "lock_test" ELSE "body"]

Top(t)        == stack[t][Len(stack[t])]
InCall(t)     == Len(stack[t]) > 0
AtPc(t, p)    == InCall(t) /\ Top(t).pc = p
SetTop(t, f)  == [stack EXCEPT ![t] = [@ EXCEPT ![Len(@)] = f]]
TopOps(t)     == Ops(Top(t).m, Top(t).a, Top(t).b)
AtOp(t, o)    == AtPc(t, "body") /\ Top(t).ip <= Len(TopOps(t))
                 /\ TopOps(t)[Top(t).ip].op = o
CurOp(t)      == TopOps(t)[Top(t).ip]
CallId(t)     == <<t, calls[t]>>

\* frames of t that hold lock l
HeldBy(t, l)  == Cardinality({i \in DOMAIN stack[t] : stack[t][i].held /\ stack[t][i].lk = l})

\* every lock released as often as frames of t hold it (the with-blocks unwinding)
Unwound(t) ==
    [l \in DOMAIN rlocks |->
        LET c == rlocks[l].count - HeldBy(t, l)
        IN  IF HeldBy(t, l) = 0 THEN rlocks[l]
            ELSE [owner |-> IF c = 0 THEN None ELSE t, count |-> c]]

\* a top-level call by a thread
Call(t, m, a, b) ==
    /\ ~InCall(t)
    /\ calls[t] < MaxCalls
    /\ calls' = [calls EXCEPT ![t] = @ + 1]
    /\ stack' = [stack EXCEPT ![t] = <<Frame(m, a, b)>>]
    /\ cexc' = [cexc EXCEPT ![t] = None]
    /\ UNCHANGED <<devVars, thread_safe, cmd_lock, nlocks, rlocks, brightness>>
    /\ UNCHANGED notCtl

\* cmd_lock property, line 222: the test
LockTest(t) ==
    /\ AtPc(t, "lock_test")
    /\ stack' = SetTop(t, [Top(t) EXCEPT !.pc =
                    IF cmd_lock = 0 /\ thread_safe THEN "lock_make" ELSE "lock_ret"])
    /\ UNCHANGED <<devVars, thread_safe, cmd_lock, nlocks, rlocks, calls, brightness, cexc>>
    /\ UNCHANGED notCtl

\* cmd_lock property, line 223: self._cmd_lock = threading.RLock()
LockMake(t) ==
    /\ AtPc(t, "lock_make")
    /\ nlocks' = nlocks + 1
    /\ cmd_lock' = nlocks + 1
    /\ stack' = SetTop(t, [Top(t) EXCEPT !.pc = "lock_ret"])
    /\ UNCHANGED <<devVars, thread_safe, rlocks, calls, brightness, cexc>>
    /\ UNCHANGED notCtl

\* cmd_lock property, line 225: return self._cmd_lock
LockRet(t) ==
    /\ AtPc(t, "lock_ret")
    /\ stack' = SetTop(t, [Top(t) EXCEPT !.lk = cmd_lock,
                    !.pc = IF cmd_lock = 0 THEN "body" ELSE "acquire"])
    /\ UNCHANGED <<devVars, thread_safe, cmd_lock, nlocks, rlocks, calls, brightness, cexc>>
    /\ UNCHANGED notCtl

\* a lock that only a thread not holding it can take
FreeOnlyUnowned(t, l) == rlocks[l].owner = None

\* threading.RLock(), line 223: free for a thread when nobody owns it or the
\* thread itself does
FreeFor(t, l) == rlocks[l].owner \in {None, t}

\* synchronized: entering the with-block of the lock read
Acquire(t) ==
    /\ AtPc(t, "acquire")
    /\ FreeFor(t, Top(t).lk)
    /\ rlocks' = [rlocks EXCEPT ![Top(t).lk] = [owner |-> t, count |-> @.count + 1]]
    /\ stack' = SetTop(t, [Top(t) EXCEPT !.held = TRUE, !.pc = "body"])
    /\ UNCHANGED <<devVars, thread_safe, cmd_lock, nlocks, calls, brightness, cexc>>
    /\ UNCHANGED notCtl

\* send_command: serial.Serial(...) opened and the command written (and its
\* response read)
TxBegin(t) ==
    /\ AtOp(t, "send") \/ AtOp(t, "query")
    /\ wire' = wire \cup {t}
    /\ wireLog' = LogAppend(wireLog, CallId(t))
    /\ devAnimating' = DevAfter(CurOp(t).m, CurOp(t).a, devAnimating)
    /\ devBrightness' = IF CurOp(t).m = "Brightness" THEN CurOp(t).a ELSE devBrightness
    /\ stack' = SetTop(t, [Top(t) EXCEPT !.pc = "tx",
                    !.r = IF CurOp(t).op = "query"
                          THEN (IF devAnimating THEN 1 ELSE 0) ELSE @])
    /\ UNCHANGED <<faults, thread_safe, cmd_lock, nlocks, rlocks, calls, brightness, cexc>>
    /\ UNCHANGED notCtl

\* the call of t ends with exception e: every with-block on its stack exits
Raised(t, e) ==
    /\ rlocks' = Unwound(t)
    /\ stack' = [stack EXCEPT ![t] = <<>>]
    /\ cexc' = [cexc EXCEPT ![t] = e]
    /\ wire' = wire \ {t}

\* send_command: opening, writing or reading fails with an IOError
TxFail(t) ==
    /\ AtOp(t, "send") \/ AtOp(t, "query")
    /\ faults < MaxFaults
    /\ faults' = faults + 1
    /\ IF SendFailure(CurOp(t).op = "query") # None
       THEN Raised(t, SendFailure(CurOp(t).op = "query"))
       ELSE /\ stack' = SetTop(t, [Top(t) EXCEPT !.ip = @ + 1])
            /\ UNCHANGED <<rlocks, cexc, wire>>
    /\ UNCHANGED <<wireLog, devAnimating, devBrightness, thread_safe, cmd_lock, nlocks, calls,
                   brightness>>
    /\ UNCHANGED notCtl

\* send_command: the serial connection is closed
TxEnd(t) ==
    /\ AtPc(t, "tx")
    /\ wire' = wire \ {t}
    /\ stack' = SetTop(t, [Top(t) EXCEPT !.pc = "body", !.ip = @ + 1])
    /\ UNCHANGED <<wireLog, devAnimating, devBrightness, faults, thread_safe, cmd_lock, nlocks, rlocks,
                   calls, brightness, cexc>>
    /\ UNCHANGED notCtl

\* a method calls another method of the controller
DoCall(t) ==
    /\ AtOp(t, "call") \/ (AtOp(t, "callif") /\ Top(t).r = 1)
    /\ stack' = [stack EXCEPT ![t] = Append(@, Frame(CurOp(t).m, CurOp(t).a, CurOp(t).b))]
    /\ UNCHANGED <<devVars, thread_safe, cmd_lock, nlocks, rlocks, calls, brightness, cexc>>
    /\ UNCHANGED notCtl

\* halt_animation: the device is not animating, animate(False) is skipped
SkipCall(t) ==
    /\ AtOp(t, "callif") /\ Top(t).r # 1
    /\ stack' = SetTop(t, [Top(t) EXCEPT !.ip = @ + 1])
    /\ UNCHANGED <<devVars, thread_safe, cmd_lock, nlocks, rlocks, calls, brightness, cexc>>
    /\ UNCHANGED notCtl

\* self.__brightness = value
Store(t) ==
    /\ AtOp(t, "store")
    /\ brightness' = CurOp(t).a
    /\ stack' = SetTop(t, [Top(t) EXCEPT !.ip = @ + 1])
    /\ UNCHANGED <<devVars, thread_safe, cmd_lock, nlocks, rlocks, calls, cexc>>
    /\ UNCHANGED notCtl

\* a validation error: percentage_to_value or draw_percentage raises ValueError
Raise(t) ==
    /\ AtOp(t, "raise")
    /\ Raised(t, CurOp(t).m)
    /\ UNCHANGED <<wireLog, devAnimating, devBrightness, faults, thread_safe, cmd_lock, nlocks, calls,
                   brightness>>
    /\ UNCHANGED notCtl

\* the method body is done: the with-block exits and the method returns
Return(t) ==
    /\ AtPc(t, "body") /\ Top(t).ip > Len(TopOps(t))
    /\ rlocks' = IF Top(t).held
                 THEN [rlocks EXCEPT ![Top(t).lk] =
                        [owner |-> IF @.count = 1 THEN None ELSE t, count |-> @.count - 1]]
                 ELSE rlocks
    /\ stack' = [stack EXCEPT ![t] =
                    LET n == Len(stack[t]) - 1
                    IN  IF n = 0 THEN <<>>
                        ELSE [i \in 1..n |->
                                IF i = n THEN [stack[t][i] EXCEPT !.ip = @ + 1]
                                ELSE stack[t][i]]]
    /\ UNCHANGED <<devVars, thread_safe, cmd_lock, nlocks, calls, brightness, cexc>>
    /\ UNCHANGED notCtl

\* the calls the threads make
CallAny(t) ==
    \/ \E a \in {0, 1} : Call(t, "animate", a, 0)
    \/ \E g \in Grids : Call(t, "draw", g, 0)
    \/ Call(t, "clear", 0, 0)
    \/ Call(t, "draw_pattern", 0, 0)
    \/ \E p \in Percents, c \in {0, 1} : Call(t, "draw_percentage", p, c)
    \/ Call(t, "halt_animation", 0, 0)
    \/ \E s \in {0, 1}, n \in 1..MaxIdentifyCycles : Call(t, "identify", s, n)
    \/ \E v \in BrightnessInputs : Call(t, "set_brightness", IntVal(v), 0)
    \/ \E v \in BrightnessInputs : Call(t, "brightness=", IntVal(v), 0)

CtlStep(t) ==
    \/ LockTest(t) \/ LockMake(t) \/ LockRet(t) \/ Acquire(t)
    \/ TxBegin(t) \/ TxFail(t) \/ TxEnd(t)
    \/ DoCall(t) \/ SkipCall(t) \/ Store(t) \/ Raise(t) \/ Return(t)


----------------------------------------------------------------------------
(* Controller construction *)

MaxConstructions == 2    \* constructions per thread

Devices    == {"d1", "d2"}
RegThreads == {"r1", "r2"}

NewInstance(d) == [id |-> Cardinality(instances) + 1, dev |-> d]

\* is_matrix_forge LEDMatrixController(metaclass=MultitonMeta): the call
\* enters the registry's creation lock
MultitonEnter(t, d) ==
    /\ rpc[t].pc = "idle"
    /\ Len(got[t]) < MaxConstructions
    /\ regLock = None
    /\ regLock' = t
    /\ rpc' = [rpc EXCEPT ![t] = [pc |-> "locked", dev |-> d]]
    /\ UNCHANGED <<registry, instances, got>>
    /\ UNCHANGED notReg

\* inside the lock: the controller registered for the identity, created and
\* registered first if there is none
MultitonLookup(t) ==
    /\ rpc[t].pc = "locked"
    /\ LET d == rpc[t].dev
           c == IF registry[d] = 0 THEN NewInstance(d).id ELSE registry[d]
       IN  /\ registry' = [registry EXCEPT ![d] = c]
           /\ instances' = instances \cup {[id |-> c, dev |-> d]}
           /\ got' = [got EXCEPT ![t] = Append(@, [id |-> c, dev |-> d])]
    /\ rpc' = [rpc EXCEPT ![t].pc = "unlock"]
    /\ UNCHANGED regLock
    /\ UNCHANGED notReg

\* the creation lock is released and the controller returned
MultitonExit(t) ==
    /\ rpc[t].pc = "unlock"
    /\ regLock' = None
    /\ rpc' = [rpc EXCEPT ![t] = [pc |-> "idle", dev |-> None]]
    /\ UNCHANGED <<registry, instances, got>>
    /\ UNCHANGED notReg

\* led_matrix_battery LEDMatrixController (a plain class) constructed by
\* get_controllers() and identify_devices(): LEDMatrixController(device, 100)
ConstructPlain(t, d) ==
    /\ rpc[t].pc = "idle"
    /\ Len(got[t]) < MaxConstructions
    /\ instances' = instances \cup {NewInstance(d)}
    /\ got' = [got EXCEPT ![t] = Append(@, NewInstance(d))]
    /\ UNCHANGED <<registry, regLock, rpc>>
    /\ UNCHANGED notReg

----------------------------------------------------------------------------
(* PowerMonitor: led_matrix_battery/monitor/__init__.py *)

MaxPolls      == 2   \* battery polls
MaxInterrupts == 1   \* KeyboardInterrupts

\* "loop" owns the monitor and calls start() (run() executes on it, and a
\* KeyboardInterrupt is delivered to it); "ctl" calls stop(), and start()
\* while the monitor is running.
MonThreads == {"loop", "ctl"}

\* the class attribute __check_interval, line 49
DEFAULT_CHECK_INTERVAL == 5

\* battery_check_interval values given to the constructor
Intervals == {1, 5, 30}

\* the battery_check_interval property, lines 82-84
battery_check_interval == check_interval

Unknown   == "unknown"
Plugged   == "plugged"
Unplugged == "unplugged"

AlreadyRunning == "RuntimeError: Monitor is already running"
NotRunning     == "RuntimeError: Monitor is not running"
MonitorNotRunningError == "PowerMonitorNotRunningError"

\* goodbye_animation: clear() is brightness(dev, 0); checkerboard_cycle sets the
\* brightness and stages a checkerboard for frame = 2, 3, 4; then show_string
GoodbyeCmds ==
    <<"Brightness", "Brightness", "Checkerboard", "Brightness", "Checkerboard",
      "Brightness", "Checkerboard", "ShowString">>

Cmd(c, a, ret) == [cmd |-> c, a |-> a, ret |-> ret]
NoCmd          == Cmd("", 0, "")

NoCycle ==
    [state |-> None, pct |-> 0, prev |-> None, last0 |-> None, snd |-> None,
     notified |-> FALSE, cmds |-> <<>>, done |-> FALSE, animEnd |-> FALSE,
     fault |-> FALSE]

NoLocals == [ws |-> FALSE, h |-> FALSE, gi |-> 1, r |-> -1, ret |-> "", sent |-> <<>>,
             intr |-> FALSE]

CycleLabels == {"notify", "pattern", "getanim", "animate", "pct", "endcycle", "count"}
StopLabels  == {"bye", "stop_getanim", "stop_animate", "stop_done"}

\* thread t is inside run()
InRun(t) ==
    \/ mpc[t] \in {"run", "sleep"} \cup CycleLabels
    \/ mpc[t] = "tx" /\ mloc[t].ret \in CycleLabels

\* a notify that treats an unknown last_state as unplugged
notify_unknown_as_unplugged(which, last) ==
    IF which = Plugged
    THEN (IF last # Plugged THEN Plugged ELSE None)
    ELSE (IF last = Plugged THEN Unplugged ELSE None)

\* notify(which): the sound it plays for a reading, given last_state
notify(which, last) ==
    IF last = Unknown THEN None
    ELSE IF which = Plugged
         THEN (IF last = Unplugged THEN Plugged ELSE None)
         ELSE (IF last = Plugged THEN Unplugged ELSE None)

\* run(), lines 242-245: the Zigzag pattern is drawn
DrawsZigzag(last) == last = Unplugged \/ last = Unknown

\* a cycle that never switches the animation
AnimateNever(state, r) == NoCmd

\* run(), lines 246-251: the Animate command sent after get_animate returned r
AnimateAfter(state, r) ==
    IF state = Plugged THEN (IF r = 0 THEN Cmd("Animate", 1, "endcycle") ELSE NoCmd)
    ELSE (IF r = 1 THEN Cmd("Animate", 0, "pct") ELSE NoCmd)

\* the next device command of thread t, and the label it continues at
MNext(t) ==
    LET c == cur[t]
        l == mloc[t]
    IN  CASE mpc[t] = "pattern" ->
                IF DrawsZigzag(last_state) THEN Cmd("Pattern", 0, "getanim")
                ELSE Cmd("AnimateQ", 0, "animate")
          [] mpc[t] = "getanim" -> Cmd("AnimateQ", 0, "animate")
          [] mpc[t] = "animate" ->
                IF AnimateAfter(c.state, l.r) # NoCmd THEN AnimateAfter(c.state, l.r)
                ELSE IF c.state = Unplugged THEN Cmd("Percentage", c.pct, "endcycle")
                ELSE NoCmd
          [] mpc[t] = "pct" -> Cmd("Percentage", c.pct, "endcycle")
          [] mpc[t] = "bye" ->
                Cmd(GoodbyeCmds[l.gi], 0,
                    IF l.gi < Len(GoodbyeCmds) THEN "bye" ELSE "stop_getanim")
          [] mpc[t] = "stop_getanim" -> Cmd("AnimateQ", 0, "stop_animate")
          [] mpc[t] = "stop_animate" ->
                IF l.r = 1 THEN Cmd("Animate", 0, "stop_done") ELSE NoCmd
          [] OTHER -> NoCmd

\* the exception a failed command raises in the monitor: checkerboard opens
\* the port outside any handler, the others go through send_command
FailureExc(cmd) ==
    IF cmd = "Checkerboard" THEN "SerialException" ELSE SendFailure(cmd = "AnimateQ")

Sent(cmd, a, anim) == [c |-> cmd, a |-> a, anim |-> anim]

\* the locals of a call that has returned or raised
Returned(l) == [NoLocals EXCEPT !.intr = l.intr]

\* a stop() that does not test the running flag
StopNeverRaises(isRunning) == None

\* start(), lines 266-268, and stop(), lines 290-291: the error raised
StartRaises(isRunning) == IF isRunning THEN AlreadyRunning ELSE None
StopRaises(isRunning)  == IF ~isRunning THEN MonitorNotRunningError ELSE None

\* start() is called
MonStartCall(t) ==
    /\ mpc[t] = "idle"
    /\ t = "loop" \/ running
    /\ mpc' = [mpc EXCEPT ![t] = "start"]
    /\ mexc' = [mexc EXCEPT ![t] = None]
    /\ mloc' = [mloc EXCEPT ![t] = NoLocals]
    /\ UNCHANGED <<running, last_state, cycles, cur, lastReading, polls, interrupts>>
    /\ UNCHANGED <<wire, devAnimating, faults>>
    /\ UNCHANGED notMon

\* start(), lines 266-274; the second thread's start() is followed only
\* against a running monitor
MonStart(t) ==
    /\ mpc[t] = "start"
    /\ t = "loop" \/ running
    /\ IF StartRaises(running) # None
       THEN /\ mexc' = [mexc EXCEPT ![t] = StartRaises(running)]
            /\ mpc' = [mpc EXCEPT ![t] = "idle"]
            /\ UNCHANGED running
       ELSE /\ running' = TRUE
            /\ mpc' = [mpc EXCEPT ![t] = "run"]
            /\ UNCHANGED mexc
    /\ UNCHANGED <<last_state, cycles, mloc, cur, lastReading, polls, interrupts>>
    /\ UNCHANGED <<wire, devAnimating, faults>>
    /\ UNCHANGED notMon

\* run(), lines 228-230 on entry and the while test after a sleep: the
\* monitor is not running
MonLoopExit(t) ==
    /\ mpc[t] \in {"run", "sleep"}
    /\ ~running
    /\ mexc' = [mexc EXCEPT ![t] = IF mpc[t] = "run" THEN NotRunning ELSE None]
    /\ mpc' = [mpc EXCEPT ![t] = "idle"]
    /\ mloc' = [mloc EXCEPT ![t] = Returned(@)]
    /\ UNCHANGED <<running, last_state, cycles, cur, lastReading, polls, interrupts>>
    /\ UNCHANGED <<wire, devAnimating, faults>>
    /\ UNCHANGED notMon

\* run(), lines 236-238: the battery is polled
MonPoll(t, s, p) ==
    /\ mpc[t] \in {"run", "sleep"}
    /\ running
    /\ polls < MaxPolls
    /\ polls' = polls + 1
    /\ lastReading' = s
    /\ cur' = [cur EXCEPT ![t] =
                [NoCycle EXCEPT !.state = s, !.pct = p, !.prev = lastReading,
                                !.last0 = last_state]]
    /\ mpc' = [mpc EXCEPT ![t] = "notify"]
    /\ UNCHANGED <<running, last_state, cycles, mloc, mexc, interrupts>>
    /\ UNCHANGED <<wire, devAnimating, faults>>
    /\ UNCHANGED notMon

\* run(), lines 241 and 249: notify(...)
MonNotify(t) ==
    /\ mpc[t] = "notify"
    /\ cur' = [cur EXCEPT ![t].snd = notify(cur[t].state, last_state),
                          ![t].notified = TRUE]
    /\ mpc' = [mpc EXCEPT ![t] = IF cur[t].state = Plugged THEN "pattern" ELSE "getanim"]
    /\ UNCHANGED <<running, last_state, cycles, mloc, mexc, lastReading, polls, interrupts>>
    /\ UNCHANGED <<wire, devAnimating, faults>>
    /\ UNCHANGED notMon

\* a device command: the port is opened and the command written
MonTxBegin(t) ==
    /\ MNext(t) # NoCmd
    /\ wire' = wire \cup {t}
    /\ devAnimating' = DevAfter(MNext(t).cmd, MNext(t).a, devAnimating)
    /\ mloc' = [mloc EXCEPT ![t] =
                [@ EXCEPT !.ret = MNext(t).ret,
                          !.r = IF MNext(t).cmd = "AnimateQ"
                                THEN (IF devAnimating THEN 1 ELSE 0) ELSE @,
                          !.gi = IF mpc[t] = "bye" THEN @ + 1 ELSE @,
                          !.sent = IF mpc[t] \in StopLabels
                                   THEN Append(@, MNext(t).cmd) ELSE @]]
    /\ cur' = IF mpc[t] \in CycleLabels
              THEN [cur EXCEPT ![t].cmds =
                        Append(@, Sent(MNext(t).cmd, MNext(t).a, devAnimating))]
              ELSE cur
    /\ mpc' = [mpc EXCEPT ![t] = "tx"]
    /\ UNCHANGED <<running, last_state, cycles, mexc, lastReading, polls, interrupts>>
    /\ UNCHANGED faults
    /\ UNCHANGED notMon

\* the port is closed
MonTxEnd(t) ==
    /\ mpc[t] = "tx"
    /\ wire' = wire \ {t}
    /\ mpc' = [mpc EXCEPT ![t] = mloc[t].ret]
    /\ UNCHANGED <<running, last_state, cycles, mloc, mexc, cur, lastReading, polls,
                   interrupts>>
    /\ UNCHANGED <<devAnimating, faults>>
    /\ UNCHANGED notMon

\* a device command hits an I/O failure
MonTxFail(t) ==
    /\ MNext(t) # NoCmd
    /\ faults < MaxFaults
    /\ faults' = faults + 1
    /\ cur' = IF mpc[t] \in CycleLabels THEN [cur EXCEPT ![t].fault = TRUE] ELSE cur
    /\ IF FailureExc(MNext(t).cmd) # None
       THEN /\ mexc' = [mexc EXCEPT ![t] = FailureExc(MNext(t).cmd)]
            /\ mpc' = [mpc EXCEPT ![t] = "idle"]
            /\ mloc' = [mloc EXCEPT ![t] = Returned(@)]
       ELSE /\ mpc' = [mpc EXCEPT ![t] = MNext(t).ret]
            /\ mloc' = [mloc EXCEPT ![t].gi = IF mpc[t] = "bye" THEN @ + 1 ELSE @]
            /\ UNCHANGED mexc
    /\ UNCHANGED <<running, last_state, cycles, lastReading, polls, interrupts>>
    /\ UNCHANGED <<wire, devAnimating>>
    /\ UNCHANGED notMon

\* run(), lines 254-258: last_state is set, and the loop breaks if the
\* monitor was stopped
MonEndCycle(t) ==
    /\ mpc[t] = "endcycle" \/ (mpc[t] = "animate" /\ MNext(t) = NoCmd)
    /\ last_state' = cur[t].state
    /\ cur' = [cur EXCEPT ![t].done = TRUE, ![t].animEnd = devAnimating]
    /\ IF running
       THEN /\ mpc' = [mpc EXCEPT ![t] = "count"]
            /\ UNCHANGED mloc
       ELSE /\ mpc' = [mpc EXCEPT ![t] = "idle"]
            /\ mloc' = [mloc EXCEPT ![t] = Returned(@)]
    /\ UNCHANGED <<running, cycles, mexc, lastReading, polls, interrupts>>
    /\ UNCHANGED <<wire, devAnimating, faults>>
    /\ UNCHANGED notMon

\* run(), lines 260-261: the cycle is counted and the loop sleeps
MonCount(t) ==
    /\ mpc[t] = "count"
    /\ cycles' = cycles + 1
    /\ mpc' = [mpc EXCEPT ![t] = "sleep"]
    /\ slept' = battery_check_interval
    /\ UNCHANGED <<running, last_state, mloc, mexc, cur, lastReading, polls, interrupts>>
    /\ UNCHANGED <<wire, devAnimating, faults>>
    /\ UNCHANGED notRun

\* a KeyboardInterrupt reaches run(): start(), lines 275-277, calls
\* stop(without_salutation=True)
MonInterrupt(t) ==
    /\ t = "loop"
    /\ InRun(t)
    /\ interrupts < MaxInterrupts
    /\ interrupts' = interrupts + 1
    /\ wire' = wire \ {t}
    /\ mpc' = [mpc EXCEPT ![t] = "stop"]
    /\ mloc' = [mloc EXCEPT ![t] = [NoLocals EXCEPT !.ws = TRUE, !.h = TRUE, !.intr = TRUE]]
    /\ UNCHANGED <<running, last_state, cycles, mexc, cur, lastReading, polls>>
    /\ UNCHANGED <<devAnimating, faults>>
    /\ UNCHANGED notMon

\* stop(without_salutation) is called
MonStopCall(t, ws) ==
    /\ t = "ctl"
    /\ mpc[t] = "idle"
    /\ mpc' = [mpc EXCEPT ![t] = "stop"]
    /\ mexc' = [mexc EXCEPT ![t] = None]
    /\ mloc' = [mloc EXCEPT ![t] = [NoLocals EXCEPT !.ws = ws]]
    /\ UNCHANGED <<running, last_state, cycles, cur, lastReading, polls, interrupts>>
    /\ UNCHANGED <<wire, devAnimating, faults>>
    /\ UNCHANGED notMon

\* stop(), lines 290-302
MonStop(t) ==
    /\ mpc[t] = "stop"
    /\ IF StopRaises(running) # None
       THEN /\ mexc' = [mexc EXCEPT ![t] = StopRaises(running)]
            /\ mpc' = [mpc EXCEPT ![t] = "idle"]
            /\ mloc' = [mloc EXCEPT ![t] = Returned(@)]
            /\ UNCHANGED running
       ELSE /\ running' = FALSE
            /\ mpc' = [mpc EXCEPT ![t] = IF mloc[t].ws THEN "stop_getanim" ELSE "bye"]
            /\ UNCHANGED <<mexc, mloc>>
    /\ UNCHANGED <<last_state, cycles, cur, lastReading, polls, interrupts>>
    /\ UNCHANGED <<wire, devAnimating, faults>>
    /\ UNCHANGED notMon

\* stop() returns (and start() with it, when stop() ran in its handler)
MonStopReturn(t) ==
    /\ mpc[t] = "stop_done" \/ (mpc[t] = "stop_animate" /\ MNext(t) = NoCmd)
    /\ mpc' = [mpc EXCEPT ![t] = "idle"]
    /\ mloc' = [mloc EXCEPT ![t] = Returned(@)]
    /\ UNCHANGED <<running, last_state, cycles, mexc, cur, lastReading, polls, interrupts>>
    /\ UNCHANGED <<wire, devAnimating, faults>>
    /\ UNCHANGED notMon

----------------------------------------------------------------------------
(* Transport: send_command_raw and the disconnected registry,
   led_matrix/helpers/__init__.py *)

MaxSends == 2    \* send_command_raw calls per thread

TxThreads == {"s1", "s2"}

NoSend == [pc |-> "idle", dev |-> None, wr |-> FALSE, marked |-> FALSE,
           failed |-> FALSE, wrote |-> FALSE, ret |-> None, exc |-> None]

InRegistry(d, reg) == \E i \in DOMAIN reg : reg[i] = d

\* send_command_raw(dev, command, with_response), line 118
SendCall(t, d, wr) ==
    /\ spc[t].pc = "idle"
    /\ sends[t] < MaxSends
    /\ sends' = [sends EXCEPT ![t] = @ + 1]
    /\ spc' = [spc EXCEPT ![t] = [NoSend EXCEPT !.pc = "serial", !.dev = d, !.wr = wr,
                                                !.marked = d \in failedIds]]
    /\ UNCHANGED <<DISCONNECTED_DEVS, portOk, failedIds>>
    /\ UNCHANGED notTx

\* lines 139-144: the port is opened, the command written and the response
\* read; lines 145-146: an IOError / OSError enters the handler
SendSerial(t) ==
    /\ spc[t].pc = "serial"
    /\ IF portOk[spc[t].dev]
       THEN /\ spc' = [spc EXCEPT ![t].pc = "idle", ![t].wrote = TRUE,
                                  ![t].ret = IF spc[t].wr THEN "response" ELSE None]
            /\ UNCHANGED failedIds
       ELSE /\ spc' = [spc EXCEPT ![t].pc = "disconnect_dev", ![t].failed = TRUE]
            /\ failedIds' = failedIds \cup {spc[t].dev}
    /\ UNCHANGED <<DISCONNECTED_DEVS, portOk, sends>>
    /\ UNCHANGED notTx

\* disconnect_dev(dev), lines 77-90, called by the handler: the membership
\* test (line 87) and the append (line 90) are two steps; the handler then
\* returns None (line 147)
DisconnectDev(t) ==
    /\ \/ /\ spc[t].pc = "disconnect_dev"
          /\ IF disconnect_dev # None
             THEN spc' = [spc EXCEPT ![t].pc = "idle", ![t].exc = disconnect_dev]
             ELSE IF InRegistry(spc[t].dev, DISCONNECTED_DEVS)
             THEN spc' = [spc EXCEPT ![t].pc = "idle"]
             ELSE spc' = [spc EXCEPT ![t].pc = "append"]
          /\ UNCHANGED DISCONNECTED_DEVS
       \/ /\ spc[t].pc = "append"
          /\ DISCONNECTED_DEVS' = Append(DISCONNECTED_DEVS, spc[t].dev)
          /\ spc' = [spc EXCEPT ![t].pc = "idle"]
    /\ UNCHANGED <<portOk, sends, failedIds>>
    /\ UNCHANGED notTx

\* the module is unplugged, or plugged in again
PortChange(d) ==
    /\ portOk' = [portOk EXCEPT ![d] = ~@]
    /\ UNCHANGED <<DISCONNECTED_DEVS, spc, sends, failedIds>>
    /\ UNCHANGED notTx

----------------------------------------------------------------------------
(* Breather: is_matrix_forge/led_matrix/display/effects/breather.py *)

\* Breather.__init__ defaults
DEFAULT_MIN_BRIGHTNESS == 5
DEFAULT_MAX_BRIGHTNESS == 90
DEFAULT_STEP           == 5

MaxBrCalls == 2   \* calls of the Breather's interface per thread
MaxRaceCalls == 1 \* the same, when two threads call it
MaxTicks   == 2   \* passes of the while body per loop thread

Min(x, y) == IF x <= y THEN x ELSE y
Max(x, y) == IF x >= y THEN x ELSE y

\* the values the setters are given
MinInputs  == {Val("int", 85), Val("float", 10)}
MaxInputs  == {Val("int", 40), Val("int", 101)}
StepInputs == {Val("int", 0), Val("int", 50)}
FpsInputs  == {Val("int", 0), Val("nan", 0), Val("str", 0)}

\* the brightness the controller is given before start()
StartBrightnesses == {40}

\* Breather.__init__'s breathe_fps default, stored as float(30.0)
DEFAULT_FPS == Val("float", 30)

\* controller.brightness: `self.__brightness or self.__default_brightness`
BrightnessGet == IF brightness <= 0 THEN FACTORY_DEFAULT_BRIGHTNESS ELSE brightness

\* the min_brightness setter, lines 108-116: the exception it raises
MinRaises(x) ==
    IF x.ty # "int" THEN "TypeError"
    ELSE IF ~(0 <= x.v /\ x.v <= 100) THEN "ValueError"
    ELSE IF x.v > max_brightness THEN "ValueError"
    ELSE None

\* the max_brightness setter, lines 125-133
MaxRaises(x) ==
    IF x.ty # "int" THEN "TypeError"
    ELSE IF ~(0 <= x.v /\ x.v <= 100) THEN "ValueError"
    ELSE IF x.v < min_brightness THEN "ValueError"
    ELSE None

\* the step setter, lines 142-148
StepRaises(x) ==
    IF x.ty # "int" THEN "TypeError"
    ELSE IF x.v <= 0 \/ x.v > 100 THEN "ValueError"
    ELSE None

\* the fps setter, lines 157-163: `new <= 0` is False for a NaN
FpsRaises(x) ==
    IF x.ty \notin {"int", "float", "nan"} THEN "TypeError"
    ELSE IF x.ty # "nan" /\ x.v <= 0 THEN "ValueError"
    ELSE None

\* float(new), line 163
Float(x) == IF x.ty = "int" THEN Val("float", x.v) ELSE x

\* a loop that applies the value it computed and turns round past the bound
BreathNextUnclamped(c, up, mn, mx, st) ==
    IF up THEN [current |-> c + st, going_up |-> c + st < mx]
          ELSE [current |-> c - st, going_up |-> c - st <= mn]

\* a loop that stops at max_brightness and never turns round
BreathNextNoTurn(c, up, mn, mx, st) ==
    [current |-> Min(c + st, mx), going_up |-> TRUE]

\* one pass of the while body of _breath_loop, lines 173-182
BreathNext(c, up, mn, mx, st) ==
    IF up
    THEN (IF c + st >= mx THEN [current |-> mx, going_up |-> FALSE]
                          ELSE [current |-> c + st, going_up |-> TRUE])
    ELSE (IF c - st <= mn THEN [current |-> mn, going_up |-> TRUE]
                          ELSE [current |-> c - st, going_up |-> FALSE])

NoBrCall == [pc |-> "idle", exc |-> None, h |-> None, flag |-> None, n |-> 0]

\* thread t enters a method of the Breather
BrEnter(t) == [bcall[t] EXCEPT !.exc = None, !.h = None, !.flag = None, !.n = @ + 1]

CanCall(t) == bcall[t].pc = "idle" /\ bcall[t].n < MaxBrCalls /\ ~InCall(t)

\* threading.Thread(target=self._breath_loop): a thread object nothing refers to
FreeThreads == {b \in BreathThreads : /\ bpc[b] \in {"off", "done"}
                                      /\ b # thread
                                      /\ \A t \in CtlThreads : bcall[t].h # b}

NewThread == CHOOSE b \in FreeThreads : TRUE

\* the thread object is started: its loop has yet to run
Started(b) ==
    /\ bpc' = [bpc EXCEPT ![b] = "enter"]
    /\ ticks' = [ticks EXCEPT ![b] = 0]
    /\ UNCHANGED <<current, going_up, interval>>

\* start() before any other thread exists, lines 192-195
BreatherStart ==
    /\ ~breathing
    /\ \A b \in BreathThreads : bpc[b] = "off"
    /\ breathing' = TRUE
    /\ thread' = BreathThread
    /\ Started(BreathThread)
    /\ startBrightness' = BrightnessGet
    /\ stopped' = FALSE
    /\ UNCHANGED <<initial_brightness, brCfg, bcall, stack>>
    /\ UNCHANGED notBr

\* start(), line 192: the test of _breathing
BrStart(t) ==
    /\ CanCall(t)
    /\ bcall' = [bcall EXCEPT ![t] = [BrEnter(t) EXCEPT
                                         !.pc = IF breathing THEN "idle" ELSE "start_set"]]
    /\ startBrightness' = BrightnessGet
    /\ stopped' = FALSE
    /\ UNCHANGED <<breathing, thread, initial_brightness, brCfg, brLoop, stack>>
    /\ UNCHANGED notBr

\* start(), lines 193-195, then the rest of the breathing setter, line 74
BrSpawn(t) ==
    /\ bcall[t].pc = "start_set"
    /\ FreeThreads # {}
    /\ breathing' = TRUE
    /\ thread' = NewThread
    /\ Started(NewThread)
    /\ bcall' = [bcall EXCEPT ![t].pc = IF bcall[t].flag = None THEN "idle" ELSE "set_flag"]
    /\ UNCHANGED <<initial_brightness, brCfg, startBrightness, stopped, stack>>
    /\ UNCHANGED notBr

\* the steps of stop() up to the join, lines 200-203, on a call record c
StopEnters(t, c) ==
    /\ breathing' = FALSE
    /\ bcall' = [bcall EXCEPT ![t] = [c EXCEPT !.pc = "join", !.h = thread]]

\* stop(), lines 200-203
BrStop(t) ==
    /\ CanCall(t)
    /\ StopEnters(t, BrEnter(t))
    /\ UNCHANGED <<thread, initial_brightness, brCfg, brLoop, startBrightness, stopped, stack>>
    /\ UNCHANGED notBr

\* a stop() that does not wait for the loop thread
JoinReturnsAtOnce(h) == TRUE

\* self._thread.join(), line 203: the thread has finished
JoinReturns(h) == bpc[h] = "done"

\* stop(), lines 203-206: the join returns (or there was no thread), _thread is
\* cleared and `self.controller.brightness = self.initial_brightness` is called
BrJoined(t) ==
    /\ bcall[t].pc = "join"
    /\ bcall[t].h # None => JoinReturns(bcall[t].h)
    /\ thread' = IF bcall[t].h # None THEN None ELSE thread
    /\ stack' = [stack EXCEPT ![t] = <<Frame("brightness=", IntVal(initial_brightness), 0)>>]
    /\ bcall' = [bcall EXCEPT ![t].pc = "restore", ![t].h = None]
    /\ UNCHANGED <<breathing, initial_brightness, brCfg, brLoop, startBrightness, stopped>>
    /\ UNCHANGED notBr

\* stop() returns, or the brightness setter's exception leaves it
BrStopReturn(t) ==
    /\ bcall[t].pc = "restore"
    /\ ~InCall(t)
    /\ bcall' = [bcall EXCEPT ![t].exc = cexc[t],
                              ![t].pc = IF bcall[t].flag = None \/ cexc[t] # None
                                        THEN "idle" ELSE "set_flag"]
    /\ stopped' = (cexc[t] = None)
    /\ UNCHANGED <<breathing, thread, initial_brightness, brCfg, brLoop, startBrightness,
                   stack>>
    /\ UNCHANGED notBr

\* the breathing setter, lines 64-74
BrSetBreathing(t, new) ==
    /\ CanCall(t)
    /\ LET c == [BrEnter(t) EXCEPT !.flag = IF new THEN "True" ELSE "False"]
       IN  IF breathing /\ ~new
           THEN /\ StopEnters(t, c)
                /\ UNCHANGED <<startBrightness, stopped>>
           ELSE IF ~breathing /\ new
           THEN /\ bcall' = [bcall EXCEPT ![t] = [c EXCEPT !.pc = "start_set"]]
                /\ startBrightness' = BrightnessGet
                /\ stopped' = FALSE
                /\ UNCHANGED breathing
           ELSE /\ bcall' = [bcall EXCEPT ![t] = c]
                /\ breathing' = new
                /\ UNCHANGED <<startBrightness, stopped>>
    /\ UNCHANGED <<thread, initial_brightness, brCfg, brLoop, stack>>
    /\ UNCHANGED notBr

\* the breathing setter, line 74: self._breathing = new
BrSetFlag(t) ==
    /\ bcall[t].pc = "set_flag"
    /\ breathing' = (bcall[t].flag = "True")
    /\ bcall' = [bcall EXCEPT ![t].pc = "idle"]
    /\ UNCHANGED <<thread, initial_brightness, brCfg, brLoop, startBrightness, stopped,
                   stack>>
    /\ UNCHANGED notBr

\* the four validated setters, lines 108-163
BrSet(t, attr, x) ==
    /\ CanCall(t)
    /\ LET e == CASE attr = "min_brightness=" -> MinRaises(x)
                  [] attr = "max_brightness=" -> MaxRaises(x)
                  [] attr = "step="           -> StepRaises(x)
                  [] attr = "fps="            -> FpsRaises(x)
       IN  /\ bcall' = [bcall EXCEPT ![t] = [BrEnter(t) EXCEPT !.exc = e]]
           /\ min_brightness' =
                  IF attr = "min_brightness=" /\ e = None THEN x.v ELSE min_brightness
           /\ max_brightness' =
                  IF attr = "max_brightness=" /\ e = None THEN x.v ELSE max_brightness
           /\ step' = IF attr = "step=" /\ e = None THEN x.v ELSE step
           /\ fps' = IF attr = "fps=" /\ e = None THEN Float(x) ELSE fps
    /\ UNCHANGED <<breathing, thread, initial_brightness, brLoop, startBrightness, stopped,
                   stack>>
    /\ UNCHANGED notBr

\* `controller.brightness = v` by a thread that is not inside the Breather
BrCallerSets(t, v) ==
    /\ bcall[t].pc = "idle"
    /\ Call(t, "brightness=", IntVal(v), 0)

\* _breath_loop, lines 166-170
BreathEnter(t) ==
    /\ bpc[t] = "enter"
    /\ interval' = [interval EXCEPT ![t] = IF fps.ty = "nan" THEN "nan" ELSE "finite"]
    /\ current' = [current EXCEPT ![t] =
                      Max(min_brightness, Min(BrightnessGet, max_brightness))]
    /\ going_up' = [going_up EXCEPT ![t] = TRUE]
    /\ bpc' = [bpc EXCEPT ![t] = "loop"]
    /\ UNCHANGED <<breathing, thread, initial_brightness, brCfg, ticks, brApi, stack>>
    /\ UNCHANGED notBr

\* _breath_loop, lines 172-185: time.sleep(interval) returns, or raises
\* ValueError on a NaN; the loop ends when _breathing is false; otherwise the
\* next value is computed and `self._controller.brightness = current` is called
BreathTick(t) ==
    /\ bpc[t] = "loop"
    /\ ~InCall(t)
    /\ cexc[t] = None
    /\ IF (ticks[t] > 0 /\ interval[t] = "nan") \/ ~breathing
       THEN /\ bpc' = [bpc EXCEPT ![t] = "done"]
            /\ UNCHANGED <<current, going_up, ticks, stack>>
       ELSE /\ ticks[t] < MaxTicks
            /\ LET n == BreathNext(current[t], going_up[t], min_brightness,
                                   max_brightness, step)
               IN  /\ current' = [current EXCEPT ![t] = n.current]
                   /\ going_up' = [going_up EXCEPT ![t] = n.going_up]
                   /\ stack' = [stack EXCEPT ![t] = <<Frame("brightness=", IntVal(n.current), 0)>>]
            /\ ticks' = [ticks EXCEPT ![t] = @ + 1]
            /\ UNCHANGED bpc
    /\ UNCHANGED <<breathing, thread, initial_brightness, brCfg, interval, brApi>>
    /\ UNCHANGED notBr

\* the same pass of _breath_loop, lines 172-185, in a loop followed for as
\* long as it runs: the passes are counted up to MaxTicks and no further
BreathPass(t) ==
    /\ bpc[t] = "loop"
    /\ ~InCall(t)
    /\ cexc[t] = None
    /\ IF (ticks[t] > 0 /\ interval[t] = "nan") \/ ~breathing
       THEN /\ bpc' = [bpc EXCEPT ![t] = "done"]
            /\ UNCHANGED <<current, going_up, ticks, stack>>
       ELSE /\ LET n == BreathNext(current[t], going_up[t], min_brightness,
                                   max_brightness, step)
               IN  /\ current' = [current EXCEPT ![t] = n.current]
                   /\ going_up' = [going_up EXCEPT ![t] = n.going_up]
                   /\ stack' = [stack EXCEPT ![t] = <<Frame("brightness=", IntVal(n.current), 0)>>]
            /\ ticks' = [ticks EXCEPT ![t] = Min(@ + 1, MaxTicks)]
            /\ UNCHANGED bpc
    /\ UNCHANGED <<breathing, thread, initial_brightness, brCfg, interval, brApi>>
    /\ UNCHANGED notBr

----------------------------------------------------------------------------
(* Display: is_matrix_forge/inputmodule/ledmatrix.py and
   led_matrix_battery/led_matrix/display/patterns.py *)

WIDTH        == 9
HEIGHT       == 34
PayloadBytes == 39    \* render_matrix: vals = [0x00 for _ in range(39)]

Cells == (0..(WIDTH - 1)) \X (0..(HEIGHT - 1))

\* bit k of v
Bit(v, k) == (v \div (2 ^ k)) % 2

\* a row-major index
CellIndexRowMajor(x, y) == y + HEIGHT * x

\* render_matrix: i = x + 9 * y
CellIndex(x, y) == x + 9 * y

\* render_matrix: the bits the two loops set in vals[b], one `|= 1 << (i % 8)`
\* for every non-zero cell with int(i / 8) = b
BitsSet(m, b) == {CellIndex(c[1], c[2]) % 8 : c \in {d \in m : CellIndex(d[1], d[2]) \div 8 = b}}

\* the byte with exactly the bits of the set on
ByteOf(bits) ==
    LET on(k) == IF k \in bits THEN 2 ^ k ELSE 0
    IN  on(0) + on(1) + on(2) + on(3) + on(4) + on(5) + on(6) + on(7)

\* render_matrix: the payload of the Draw command, 39 bytes that start at 0
render_matrix(m) == [b \in 1..PayloadBytes |-> ByteOf(BitsSet(m, b - 1))]

\* the cells at the corners and at the byte borders of the payload
BoundaryCells == {<<0, 0>>, <<8, 0>>, <<0, 1>>, <<7, 0>>, <<0, 33>>, <<8, 33>>}

\* the matrices rendered: every combination of the boundary cells, every
\* single cell, every matrix with one cell off, and the full matrix
MatrixInputs ==
    (SUBSET BoundaryCells) \cup {{c} : c \in Cells} \cup {Cells \ {c} : c \in Cells}
    \cup {Cells}

NoRender == [fn |-> None, n |-> 0, x |-> 0, pc |-> "idle", exc |-> None]

Command(c, x, vals) == [cmd |-> c, x |-> x, vals |-> vals]

\* render_matrix(dev, matrix): one Draw command
RenderMatrix ==
    /\ rendering.pc = "idle"
    /\ rendering' = [NoRender EXCEPT !.fn = "render_matrix", !.pc = "done"]
    /\ written' = <<Command("Draw", 0, render_matrix(matrix))>>
    /\ UNCHANGED matrix
    /\ UNCHANGED notDisp

\* pattern(dev, p): the entries of the table that stage columns
StagedPatterns ==
    {[fn |-> "all_brightnesses", n |-> 0]}
    \cup {[fn |-> "every_nth_row", n |-> k] : k \in {2, 3, 4, 5, 6}}
    \cup {[fn |-> "every_nth_col", n |-> k] : k \in {2, 3, 4}}
    \cup {[fn |-> "checkerboard", n |-> k] : k \in {1, 2, 3, 4}}

\* checkerboard: (([0xFF] * n) + ([0x00] * n)) * int(HEIGHT / 2), rotated by n
\* when x % (n * 2) < n
CheckerboardVals(n, x) ==
    LET len  == 2 * n * (HEIGHT \div 2)
        base == [i \in 1..len |-> IF (i - 1) % (2 * n) < n THEN 255 ELSE 0]
    IN  IF x % (n * 2) < n
        THEN [i \in 1..len |-> base[((i - 1 + n) % len) + 1]]
        ELSE base

\* the values a staged pattern sends for column x
ColumnVals(fn, n, x) ==
    CASE fn = "checkerboard"     -> CheckerboardVals(n, x)
      [] fn = "every_nth_col"    -> [y \in 1..HEIGHT |-> IF x % n = 0 THEN 255 ELSE 0]
      [] fn = "every_nth_row"    -> [y \in 1..HEIGHT |-> IF (y - 1) % n = 0 THEN 255 ELSE 0]
      [] fn = "all_brightnesses" ->
            [y \in 1..HEIGHT |->
                LET b == x + WIDTH * (y - 1) IN IF b > 255 THEN 0 ELSE b]

\* a loop that leaves after its first column
ColumnsDoneEarly(x) == x >= 1

\* for x in range(0, WIDTH): the loop is over
ColumnsDone(x) == x = WIDTH

\* the pattern function is called: serial.Serial(dev.device, 115200) is opened
PatternCall(p) ==
    /\ rendering.pc \in {"idle", "done", "failed"}
    /\ rendering' = [NoRender EXCEPT !.fn = p.fn, !.n = p.n, !.pc = "cols"]
    /\ written' = <<>>
    /\ UNCHANGED matrix
    /\ UNCHANGED notDisp

\* send_col: the StageGreyCol command of the next column is written
StageColumn ==
    /\ rendering.pc = "cols"
    /\ ~ColumnsDone(rendering.x)
    /\ written' = Append(written, Command("StageGreyCol", rendering.x,
                                    ColumnVals(rendering.fn, rendering.n, rendering.x)))
    /\ rendering' = [rendering EXCEPT !.x = @ + 1]
    /\ UNCHANGED matrix
    /\ UNCHANGED notDisp

\* commit_cols: the DrawGreyColBuffer command is written and the port closed
CommitColumns ==
    /\ rendering.pc = "cols"
    /\ ColumnsDone(rendering.x)
    /\ written' = Append(written, Command("DrawGreyColBuffer", 0, <<>>))
    /\ rendering' = [rendering EXCEPT !.pc = "done"]
    /\ UNCHANGED matrix
    /\ UNCHANGED notDisp

\* send_serial: s.write raises; the handler calls disconnect_dev, and what
\* that raises ends the pattern function
WriteFails ==
    /\ rendering.pc = "cols"
    /\ faults < MaxFaults
    /\ faults' = faults + 1
    /\ rendering' = IF disconnect_dev # None
                    THEN [rendering EXCEPT !.pc = "failed", !.exc = disconnect_dev]
                    ELSE IF ColumnsDone(rendering.x)
                         THEN [rendering EXCEPT !.pc = "done"]
                         ELSE [rendering EXCEPT !.x = @ + 1]
    /\ UNCHANGED <<matrix, written>>
    /\ UNCHANGED <<wire, wireLog, devAnimating, devBrightness>>
    /\ UNCHANGED <<txVars, ctlVars, regVars, monVars, ivVars, slept, brVars, objVars, frmVars>>

----------------------------------------------------------------------------
(* Grid: led_matrix_battery/led_matrix/display/grid/grid.py; lists are
   column-major, grid[x][y], and the Python index i is the position i + 1 *)

\* a check that accepts every list
AnyGridValid(g, w, h) == TRUE

\* helpers.is_valid_grid: `width` columns of `height` cells, each 0 or 1
is_valid_grid(g, w, h) ==
    /\ Len(g) = w
    /\ \A c \in DOMAIN g : Len(g[c]) = h /\ \A r \in DOMAIN g[c] : g[c][r] \in {0, 1}

\* generate_blank_grid(width, height, fill_value)
generate_blank_grid(w, h, f) == [c \in 1..w |-> [r \in 1..h |-> f]]

\* seq[i] as Python indexes a list: a negative index counts from the end
PyIndex(seq, i) == IF i < 0 THEN seq[Len(seq) + i + 1] ELSE seq[i + 1]

NoGridObj == [live |-> FALSE, width |-> 0, height |-> 0, fill_value |-> 0, cells |-> <<>>]

NewGrid(w, h, f, cells) ==
    [live |-> TRUE, width |-> w, height |-> h, fill_value |-> f, cells |-> cells]

GridOp(op, arg, exc, ret) == [op |-> op, arg |-> arg, exc |-> exc, ret |-> ret]

NoGridOp == GridOp(None, None, None, None)

\* the arguments the operations are given
GridDims   == {<<2, 3>>, <<1, 2>>, <<2, 2>>}
GridLists  == {<<<<0, 0, 0>>, <<0, 0, 0>>>>, <<<<1, 0, 0>>, <<0, 1, 1>>>>,
               <<<<1, 0>>>>, <<<<1, 0, 0>>, <<0, 1>>>>, <<<<1, 2, 0>>, <<0, 1, 1>>>>,
               <<<<1, 0>>, <<0, 1>>>>}
FillInputs == {0, 1, 5}
PixelXs    == {-1, 0, 1, 2}
PixelYs    == {-1, 0, 2, 3}
ShiftsX    == {-3, -1, 0, 1, 3}
ShiftsY    == {-4, -1, 0, 1, 4}

\* Grid.__init__, lines 53-60: what makes it raise ValueError
GridInitRaises(w, h, f, withGrid, ig) ==
    IF withGrid THEN ~is_valid_grid(ig, w, h) ELSE f \notin {0, 1}

\* Grid.__init__: the object constructed
GridInit(w, h, f, withGrid, ig) ==
    NewGrid(w, h, f, IF withGrid THEN ig ELSE generate_blank_grid(w, h, f))

\* Grid(width, height, fill_value, init_grid)
GridConstruct(w, h, f, withGrid, ig) ==
    /\ ~gridObj.live
    /\ LET arg == [w |-> w, h |-> h, f |-> f, withGrid |-> withGrid,
                   init_grid |-> IF withGrid THEN ig ELSE <<>>]
       IN  IF GridInitRaises(w, h, f, withGrid, ig)
           THEN /\ gridOp' = GridOp("__init__", arg, "ValueError", None)
                /\ UNCHANGED gridObj
           ELSE /\ gridOp' = GridOp("__init__", arg, None, None)
                /\ gridObj' = GridInit(w, h, f, withGrid, ig)
    /\ UNCHANGED notObj

\* grid setter, lines 71-76
GridSet(value) ==
    /\ gridObj.live
    /\ IF ~is_valid_grid(value, gridObj.width, gridObj.height)
       THEN /\ gridOp' = GridOp("grid=", value, "ValueError", None)
            /\ UNCHANGED gridObj
       ELSE /\ gridOp' = GridOp("grid=", value, None, None)
            /\ gridObj' = [gridObj EXCEPT !.cells = value]
    /\ UNCHANGED notObj

\* fill_value setter, lines 93-98
FillValueSet(v) ==
    /\ gridObj.live
    /\ IF v \notin {0, 1}
       THEN /\ gridOp' = GridOp("fill_value=", v, "ValueError", None)
            /\ UNCHANGED gridObj
       ELSE /\ gridOp' = GridOp("fill_value=", v, None, None)
            /\ gridObj' = [gridObj EXCEPT !.fill_value = v]
    /\ UNCHANGED notObj

\* a bounds check that lets negative indices through
AboveBounds(x, y, w, h) == x >= w \/ y >= h

\* get_pixel_value, line 165
OutOfBounds(x, y, w, h) == x < 0 \/ x >= w \/ y < 0 \/ y >= h

\* get_pixel_value(x, y), lines 163-167
GetPixelValue(x, y) ==
    /\ gridObj.live
    /\ gridOp' = IF OutOfBounds(x, y, gridObj.width, gridObj.height)
                 THEN GridOp("get_pixel_value", <<x, y>>, "IndexError", None)
                 ELSE GridOp("get_pixel_value", <<x, y>>, None,
                             PyIndex(PyIndex(gridObj.cells, x), y))
    /\ UNCHANGED gridObj
    /\ UNCHANGED notObj

\* a source index that never wraps
ShiftSourceUnwrapped(c, d, n, wrap) == c + d

\* get_shifted, lines 183-184: the source index of column (row) c
ShiftSource(c, d, n, wrap) == IF wrap THEN (c + d) % n ELSE c + d

\* get_shifted, lines 181-187: the list `new`
ShiftedCells(obj, dx, dy, wrap) ==
    [c \in 1..obj.width |-> [r \in 1..obj.height |->
        LET src_c == ShiftSource(c - 1, dx, obj.width, wrap)
            src_r == ShiftSource(r - 1, dy, obj.height, wrap)
        IN  IF 0 <= src_c /\ src_c < obj.width /\ 0 <= src_r /\ src_r < obj.height
            THEN obj.cells[src_c + 1][src_r + 1]
            ELSE obj.fill_value]]

\* a shift that writes the moved cells into self._grid
ShiftedInPlace(cells, new) == new

\* get_shifted, line 187: the moved cells are written into `new`; self._grid is
\* only read
CellsAfterShift(cells, new) == cells

\* get_shifted(dx, dy, wrap), lines 169-188
GetShifted(dx, dy, wrap) ==
    /\ gridObj.live
    /\ LET new == ShiftedCells(gridObj, dx, dy, wrap)
           w   == gridObj.width
           h   == gridObj.height
           f   == gridObj.fill_value
       IN  /\ gridOp' = IF GridInitRaises(w, h, f, TRUE, new)
                        THEN GridOp("get_shifted", <<dx, dy, wrap>>, "ValueError", None)
                        ELSE GridOp("get_shifted", <<dx, dy, wrap>>, None,
                                    GridInit(w, h, f, TRUE, new))
           /\ gridObj' = [gridObj EXCEPT !.cells = CellsAfterShift(@, new)]
    /\ UNCHANGED notObj

\* get_shifted(dx, dy, wrap) called on the Grid the last get_shifted returned
ShiftReturned(dx, dy, wrap) ==
    /\ gridObj.live
    /\ gridOp.op = "get_shifted" /\ gridOp.exc = None
    /\ LET obj == gridOp.ret
           new == ShiftedCells(obj, dx, dy, wrap)
           arg == <<gridOp.arg, <<dx, dy, wrap>>>>
       IN  gridOp' = IF GridInitRaises(obj.width, obj.height, obj.fill_value, TRUE, new)
                     THEN GridOp("get_shifted.get_shifted", arg, "ValueError", None)
                     ELSE GridOp("get_shifted.get_shifted", arg, None,
                                 GridInit(obj.width, obj.height, obj.fill_value, TRUE, new))
    /\ UNCHANGED gridObj
    /\ UNCHANGED notObj

\* the shift just made is undone on the Grid it returned
ShiftBack ==
    /\ gridOp.op = "get_shifted"
    /\ ShiftReturned(0 - gridOp.arg[1], 0 - gridOp.arg[2], gridOp.arg[3])

\* the frame-list files read: lists of records with a 'grid' list
FrameFiles ==
    LET a == [grid |-> <<<<1, 0, 0>>, <<0, 1, 1>>>>]
        b == [grid |-> <<<<0, 0, 0>>, <<0, 0, 0>>>>]
    IN  {<<>>, <<a>>, <<a, b>>}

FrameNumbers == {-3, -1, 0, 1, 2}

\* raw[frame_number] raises IndexError: the list has no such position,
\* counted from the front or, for a negative index, from the end
IndexRaises(seq, i) == i >= Len(seq) \/ i < 0 - Len(seq)

\* Grid.from_file(filename, frame_number, height, width) on a frame-list
\* file, lines 138-155
FromFile(raw, frame_number, w, h) ==
    /\ LET arg == <<raw, frame_number>>
       IN  gridOp' =
             IF IndexRaises(raw, frame_number)
             THEN GridOp("from_file", arg, "IndexError", None)
             ELSE LET grid_data == PyIndex(raw, frame_number).grid
                  IN  IF ~is_valid_grid(grid_data, w, h)
                      THEN GridOp("from_file", arg, "ValueError", None)
                      ELSE GridOp("from_file", arg, None, GridInit(w, h, 0, TRUE, grid_data))
    /\ UNCHANGED gridObj
    /\ UNCHANGED notObj

----------------------------------------------------------------------------
(* Frame: led_matrix_battery/led_matrix/display/animations/frame/base.py;
   durations are in milliseconds *)
MaxPlays == 2

DEFAULT_DURATION == 330

\* no Frame constructed yet
NoFrame ==
    [live |-> FALSE, dims |-> <<0, 0>>, has_grid |-> FALSE, grid |-> <<>>, duration |-> 0,
     number_of_plays |-> 0, op |-> None, exc |-> None, waited |-> 0]

\* _width, _height: 0 in Frame itself, the display's size where a subclass
\* overrides the two properties
FrameDims == {<<0, 0>>, <<WIDTH, HEIGHT>>}

\* the grid argument: an empty list, a blank display, one lit pixel
FrameGrids ==
    {<<>>, generate_blank_grid(WIDTH, HEIGHT, 0),
     [generate_blank_grid(WIDTH, HEIGHT, 0) EXCEPT ![1][1] = 1]}

DurationInputs == {0, DEFAULT_DURATION, 1000}

PlayCountInputs == {-1, 0, 1, 2}

\* the devices play is given: one that takes the command, one whose port fails
FrameDevices == {"ok", "unplugged"}

FrameDone(f, op) == [f EXCEPT !.op = op, !.exc = None, !.waited = 0]
FrameRaised(f, op, exc) == [f EXCEPT !.op = op, !.exc = exc, !.waited = 0]

\* Frame(grid, duration), lines 16-25: the grid setter validates against
\* _width x _height, the duration setter rejects what is not positive; an
\* exception leaves no Frame
FrameConstruct(dims, withGrid, g, duration) ==
    /\ frameObj' =
         IF withGrid /\ ~is_valid_grid(g, dims[1], dims[2])
         THEN FrameRaised(NoFrame, "Frame", "ValueError")
         ELSE IF duration <= 0
         THEN FrameRaised(NoFrame, "Frame", "ValueError")
         ELSE [NoFrame EXCEPT !.live = TRUE, !.dims = dims, !.has_grid = withGrid,
                              !.grid = IF withGrid THEN g ELSE <<>>,
                              !.duration = duration, !.op = "Frame"]
    /\ UNCHANGED written
    /\ UNCHANGED notFrm

\* the cells of a grid that are on
LitCells(g) == {c \in Cells : g[c[1] + 1][c[2] + 1] # 0}

\* the count after a play that was rendered and waited for
PlayNotCounted(n) == n
PlayCounted(n) == n + 1

\* play(device), lines 144-150: render_matrix, sleep(duration), count.
\* self.grid raises when no grid was ever set, matrix[x][y] when the grid is
\* smaller than the display, the write when the port fails; the sleep may be
\* interrupted
FramePlay(dev, interrupted) ==
    /\ frameObj.live
    /\ frameObj.number_of_plays < MaxPlays
    /\ LET exc == IF ~frameObj.has_grid THEN "AttributeError"
                  ELSE IF ~is_valid_grid(frameObj.grid, WIDTH, HEIGHT) THEN "IndexError"
                  ELSE IF dev = "unplugged" /\ disconnect_dev # None THEN disconnect_dev
                  ELSE IF interrupted THEN "KeyboardInterrupt"
                  ELSE None
           rendered == frameObj.has_grid /\ is_valid_grid(frameObj.grid, WIDTH, HEIGHT)
                       /\ dev = "ok"
       IN  /\ frameObj' =
                IF exc # None
                THEN FrameRaised(frameObj, "play", exc)
                ELSE [frameObj EXCEPT !.op = "play", !.exc = None,
                                      !.waited = frameObj.duration,
                                      !.number_of_plays = PlayCounted(@)]
           /\ written' = IF rendered
                         THEN <<Command("Draw", 0, render_matrix(LitCells(frameObj.grid)))>>
                         ELSE written
    /\ UNCHANGED notFrm

\* frame.number_of_plays = new, lines 70-74
NumberOfPlaysSet(new) ==
    /\ frameObj.live
    /\ frameObj' = IF new < 0
                   THEN FrameRaised(frameObj, "number_of_plays=", "ValueError")
                   ELSE [FrameDone(frameObj, "number_of_plays=") EXCEPT !.number_of_plays = new]
    /\ UNCHANGED written
    /\ UNCHANGED notFrm

\* frame.grid = value, lines 61-64
FrameGridSet(value) ==
    /\ frameObj.live
    /\ frameObj' = IF ~is_valid_grid(value, frameObj.dims[1], frameObj.dims[2])
                   THEN FrameRaised(frameObj, "grid=", "ValueError")
                   ELSE [FrameDone(frameObj, "grid=") EXCEPT !.has_grid = TRUE, !.grid = value]
    /\ UNCHANGED written
    /\ UNCHANGED notFrm

\* frame.duration = value, lines 80-95
FrameDurationSet(value) ==
    /\ frameObj.live
    /\ frameObj' = IF value <= 0
                   THEN FrameRaised(frameObj, "duration=", "ValueError")
                   ELSE [FrameDone(frameObj, "duration=") EXCEPT !.duration = value]
    /\ UNCHANGED written
    /\ UNCHANGED notFrm

----------------------------------------------------------------------------
(* Initial state: a controller just constructed, the device idle *)

InitDev ==
    /\ wire = {}
    /\ wireLog = <<>>
    /\ devAnimating \in BOOLEAN
    /\ devBrightness = -1
    /\ faults = 0

\* __init__: _cmd_lock = None, __brightness = None, thread_safe as given
InitCtl ==
    /\ thread_safe \in BOOLEAN
    /\ cmd_lock = 0
    /\ nlocks = 0
    /\ rlocks = [l \in 1..Cardinality(Callers) |-> [owner |-> None, count |-> 0]]
    /\ stack = [t \in Callers |-> <<>>]
    /\ calls = [t \in Callers |-> 0]
    /\ brightness = -1
    /\ cexc = [t \in Callers |-> None]

\* __init__, lines 107 and 126-130: __grid is init_grid, None when not given
InitGrid(g) == grid = g

InitReg ==
    /\ registry = [d \in Devices |-> 0]
    /\ regLock = None
    /\ instances = {}
    /\ rpc = [t \in RegThreads |-> [pc |-> "idle", dev |-> None]]
    /\ got = [t \in RegThreads |-> <<>>]

\* constants.py line 13: DISCONNECTED_DEVS = []
InitTx ==
    /\ DISCONNECTED_DEVS = <<>>
    /\ portOk = [d \in Devices |-> TRUE]
    /\ spc = [t \in TxThreads |-> NoSend]
    /\ sends = [t \in TxThreads |-> 0]
    /\ failedIds = {}

\* PowerMonitor.__init__ and the class attributes
InitMon ==
    /\ running = FALSE
    /\ last_state = Unknown
    /\ cycles = 0
    /\ mpc = [t \in MonThreads |-> "idle"]
    /\ mloc = [t \in MonThreads |-> NoLocals]
    /\ mexc = [t \in MonThreads |-> None]
    /\ cur = [t \in MonThreads |-> NoCycle]
    /\ lastReading = None
    /\ polls = 0
    /\ interrupts = 0

\* PowerMonitor.__init__(battery_check_interval=i), line 80, over the class
\* attribute __check_interval
InitInterval(i) ==
    /\ check_interval = DEFAULT_CHECK_INTERVAL
    /\ stored_interval = (IF i # 0 THEN i ELSE check_interval)
    /\ slept = 0

\* Breather.__init__ with its default arguments
InitBrWith(mn, mx, st) ==
    /\ breathing = FALSE
    /\ thread = None
    /\ initial_brightness = BrightnessGet
    /\ bpc = [b \in BreathThreads |-> "off"]
    /\ current = [b \in BreathThreads |-> 0]
    /\ going_up = [b \in BreathThreads |-> TRUE]
    /\ interval = [b \in BreathThreads |-> "finite"]
    /\ ticks = [b \in BreathThreads |-> 0]
    /\ min_brightness = mn
    /\ max_brightness = mx
    /\ step = st
    /\ fps = DEFAULT_FPS
    /\ bcall = [t \in CtlThreads |-> NoBrCall]
    /\ startBrightness = -1
    /\ stopped = FALSE

\* a Breather built with the defaults of __init__
InitBr == InitBrWith(DEFAULT_MIN_BRIGHTNESS, DEFAULT_MAX_BRIGHTNESS, DEFAULT_STEP)

\* no render begun, given the matrix m
InitDisp(m) ==
    /\ matrix = m
    /\ rendering = NoRender
    /\ written = <<>>

\* no Grid constructed yet
InitObj ==
    /\ gridObj = NoGridObj
    /\ gridOp = NoGridOp
    /\ frameObj = NoFrame

Init ==
    /\ InitDev /\ InitTx /\ InitCtl /\ InitReg /\ InitMon /\ InitBr
    /\ InitInterval(DEFAULT_CHECK_INTERVAL)
    /\ InitGrid(NoGrid)
    /\ InitDisp({}) /\ InitObj

----------------------------------------------------------------------------
(* Specifications *)

NextCtl == \E t \in CtlThreads : CallAny(t) \/ CtlStep(t)

SpecCtl == Init /\ [][NextCtl]_vars

NextReg ==
    \E t \in RegThreads :
        \/ \E d \in Devices : MultitonEnter(t, d)
        \/ MultitonLookup(t)
        \/ MultitonExit(t)
        \/ \E d \in Devices : ConstructPlain(t, d)

SpecReg == Init /\ [][NextReg]_vars

NextMon ==
    \E t \in MonThreads :
        \/ MonStartCall(t)
        \/ MonStart(t)
        \/ MonLoopExit(t)
        \/ \E s \in {Plugged, Unplugged}, p \in Percents : MonPoll(t, s, p)
        \/ MonNotify(t)
        \/ MonTxBegin(t)
        \/ MonTxEnd(t)
        \/ MonTxFail(t)
        \/ MonEndCycle(t)
        \/ MonCount(t)
        \/ MonInterrupt(t)
        \/ \E ws \in BOOLEAN : MonStopCall(t, ws)
        \/ MonStop(t)
        \/ MonStopReturn(t)

\* the polling loop and the Breather work on the same device
NextShared ==
    \/ MonStartCall("loop")
    \/ MonStart("loop")
    \/ \E s \in {Plugged, Unplugged}, p \in Percents : MonPoll("loop", s, p)
    \/ MonNotify("loop")
    \/ MonTxBegin("loop")
    \/ MonTxEnd("loop")
    \/ MonEndCycle("loop")
    \/ MonCount("loop")
    \/ BreatherStart
    \/ BreathEnter(BreathThread)
    \/ BreathTick(BreathThread)
    \/ LockTest(BreathThread)
    \/ LockMake(BreathThread)
    \/ LockRet(BreathThread)
    \/ Acquire(BreathThread)
    \/ TxBegin(BreathThread)
    \/ TxEnd(BreathThread)
    \/ DoCall(BreathThread)
    \/ Store(BreathThread)
    \/ Return(BreathThread)

SpecShared == Init /\ [][NextShared]_vars

\* the monitor drives the device itself: the controller keeps its default,
\* thread_safe = False
InitDefault == Init /\ thread_safe = FALSE

SpecMon == InitDefault /\ [][NextMon]_vars

\* a monitor constructed with any of the intervals, started and polling
InitAnyInterval ==
    /\ InitDev /\ InitTx /\ InitCtl /\ InitReg /\ InitMon /\ InitBr
    /\ \E i \in Intervals : InitInterval(i)
    /\ InitGrid(NoGrid)
    /\ InitDisp({}) /\ InitObj

NextInterval ==
    \/ MonStartCall("loop")
    \/ MonStart("loop")
    \/ \E s \in {Plugged, Unplugged}, p \in Percents : MonPoll("loop", s, p)
    \/ MonNotify("loop")
    \/ MonTxBegin("loop")
    \/ MonTxEnd("loop")
    \/ MonEndCycle("loop")
    \/ MonCount("loop")

SpecInterval == InitAnyInterval /\ [][NextInterval]_vars

\* threads sending commands to two modules that come and go
NextTx ==
    \/ \E t \in TxThreads :
           \/ \E d \in Devices, wr \in BOOLEAN : SendCall(t, d, wr)
           \/ SendSerial(t)
           \/ DisconnectDev(t)
    \/ \E d \in Devices : PortChange(d)

SpecTx == Init /\ [][NextTx]_vars

\* the steps of a brightness assignment on a controller without a lock
CtlSteps(t) ==
    \/ LockTest(t)
    \/ LockRet(t)
    \/ TxBegin(t)
    \/ TxEnd(t)
    \/ DoCall(t)
    \/ Store(t)
    \/ Return(t)

\* one thread drives the Breather and the controller's brightness while the
\* loop threads run
NextBr ==
    \/ BrStart("c1")
    \/ BrSpawn("c1")
    \/ BrStop("c1")
    \/ BrJoined("c1")
    \/ BrStopReturn("c1")
    \/ \E new \in BOOLEAN : BrSetBreathing("c1", new)
    \/ BrSetFlag("c1")
    \/ \E x \in MinInputs : BrSet("c1", "min_brightness=", x)
    \/ \E x \in MaxInputs : BrSet("c1", "max_brightness=", x)
    \/ \E x \in StepInputs : BrSet("c1", "step=", x)
    \/ \E x \in FpsInputs : BrSet("c1", "fps=", x)
    \/ \E v \in StartBrightnesses : BrCallerSets("c1", v)
    \/ \E b \in BreathThreads : BreathEnter(b) \/ BreathTick(b)
    \/ \E t \in BreathThreads \cup {"c1"} : CtlSteps(t)

SpecBr == InitDefault /\ [][NextBr]_vars

\* two threads start and stop the Breather
RaceStart(t) == bcall[t].n < MaxRaceCalls /\ BrStart(t)

RaceStop(t) == bcall[t].n < MaxRaceCalls /\ BrStop(t)

RaceSetBreathing(t, new) == bcall[t].n < MaxRaceCalls /\ BrSetBreathing(t, new)

NextBrRace ==
    \/ \E t \in CtlThreads :
           \/ RaceStart(t)
           \/ BrSpawn(t)
           \/ RaceStop(t)
           \/ BrJoined(t)
           \/ BrStopReturn(t)
           \/ \E new \in BOOLEAN : RaceSetBreathing(t, new)
           \/ BrSetFlag(t)
    \/ \E b \in BreathThreads : BreathEnter(b) \/ BreathTick(b)
    \/ \E t \in Callers : CtlSteps(t)

SpecBrRace == InitDefault /\ [][NextBrRace]_vars

\* the brightness interface: the values the callers hand to it
PercentInputs == {IntVal(-1), IntVal(0), IntVal(40), IntVal(100), IntVal(101), Val("str", 75)}

\* controller.set_brightness(x)
CallSetBrightness(t, x) == Call(t, "set_brightness", x, 0)

\* controller.brightness = x
AssignBrightness(t, x) == Call(t, "brightness=", x, 0)

\* the steps of a brightness call, with or without a lock
BrightSteps(t) ==
    \/ LockTest(t) \/ LockMake(t) \/ LockRet(t) \/ Acquire(t)
    \/ TxBegin(t) \/ TxFail(t) \/ TxEnd(t)
    \/ DoCall(t) \/ Store(t) \/ Raise(t) \/ Return(t)

\* two threads set the brightness of one controller
NextBright ==
    \E t \in CtlThreads :
        \/ \E x \in PercentInputs : CallSetBrightness(t, x) \/ AssignBrightness(t, x)
        \/ BrightSteps(t)

SpecBright == Init /\ [][NextBright]_vars

\* a thread-safe controller
InitThreadSafe == Init /\ thread_safe = TRUE

\* a thread's one call of a method that calls other synchronized methods, or
\* of animate
CallNested(t) ==
    /\ calls[t] = 0
    /\ \/ \E s \in {0, 1} : Call(t, "identify", s, 1)
       \/ \E p \in Percents : Call(t, "draw_percentage", p, 1)
       \/ Call(t, "halt_animation", 0, 0)
       \/ Call(t, "clear", 0, 0)
       \/ Call(t, "animate", 1, 0)

NestedSteps(t) ==
    \/ LockTest(t) \/ LockMake(t) \/ LockRet(t) \/ Acquire(t)
    \/ TxBegin(t) \/ TxFail(t) \/ TxEnd(t)
    \/ DoCall(t) \/ SkipCall(t) \/ Return(t)

NextNested == \E t \in CtlThreads : CallNested(t) \/ NestedSteps(t)

\* every thread that can take a step is scheduled again
FairNested == \A t \in CtlThreads : WF_vars(NestedSteps(t))

\* Breather(controller, min_brightness, max_brightness, step): the bounds and
\* steps the loop is followed with, step > max - min and min = 0 among them
BreathConfigs ==
    {<<DEFAULT_MIN_BRIGHTNESS, DEFAULT_MAX_BRIGHTNESS, DEFAULT_STEP>>,
     <<10, 20, 3>>, <<0, 100, 30>>, <<40, 45, 100>>, <<10, 11, 1>>, <<80, 100, 7>>}

InitAnyBreath ==
    /\ InitDev /\ InitTx /\ InitCtl /\ InitReg /\ InitMon
    /\ \E c \in BreathConfigs : InitBrWith(c[1], c[2], c[3])
    /\ InitInterval(DEFAULT_CHECK_INTERVAL)
    /\ InitGrid(NoGrid)
    /\ InitDisp({}) /\ InitObj

\* the Breather is started and its loop runs; a write may fail
NextBreath ==
    \/ BreatherStart
    \/ BreathEnter(BreathThread)
    \/ BreathPass(BreathThread)
    \/ LockTest(BreathThread) \/ LockMake(BreathThread) \/ LockRet(BreathThread)
    \/ Acquire(BreathThread)
    \/ TxBegin(BreathThread) \/ TxFail(BreathThread) \/ TxEnd(BreathThread)
    \/ DoCall(BreathThread) \/ Store(BreathThread) \/ Return(BreathThread)

\* the loop's thread is scheduled again and again
FairBreath == WF_vars(NextBreath)

SpecBreath == InitAnyBreath /\ [][NextBreath]_vars /\ FairBreath

\* two threads call the nested methods of a thread-safe controller
SpecNested == InitThreadSafe /\ [][NextNested]_vars /\ FairNested

AssignedPercents == {IntVal(40), IntVal(60)}

AssignSteps(t) ==
    \/ LockTest(t) \/ LockMake(t) \/ LockRet(t) \/ Acquire(t)
    \/ TxBegin(t) \/ TxEnd(t)
    \/ DoCall(t) \/ Store(t) \/ Return(t)

\* two threads assign the brightness of a thread-safe controller
NextAssign ==
    \E t \in CtlThreads :
        \/ \E x \in AssignedPercents : AssignBrightness(t, x)
        \/ AssignSteps(t)

SpecAssign == InitThreadSafe /\ [][NextAssign]_vars

\* a controller constructed with or without an init_grid
InitAnyGrid ==
    /\ InitDev /\ InitTx /\ InitCtl /\ InitReg /\ InitMon /\ InitBr
    /\ InitInterval(DEFAULT_CHECK_INTERVAL)
    /\ \E g \in Grids \cup {NoGrid} : InitGrid(g)
    /\ InitDisp({}) /\ InitObj

DrawSteps(t) ==
    \/ LockTest(t) \/ LockMake(t) \/ LockRet(t) \/ Acquire(t)
    \/ TxBegin(t) \/ TxFail(t) \/ TxEnd(t)
    \/ DoCall(t) \/ Return(t)

\* two threads draw grids on the controller and clear it
NextDraw ==
    \E t \in CtlThreads :
        \/ \E g \in Grids : Call(t, "draw", g, 0) \/ Call(t, "draw_grid", g, 0)
        \/ Call(t, "clear", 0, 0)
        \/ DrawSteps(t)

SpecDraw == InitAnyGrid /\ [][NextDraw]_vars

\* render_matrix applied to each of the matrices
InitAnyMatrix ==
    /\ InitDev /\ InitTx /\ InitCtl /\ InitReg /\ InitMon /\ InitBr
    /\ InitInterval(DEFAULT_CHECK_INTERVAL)
    /\ InitGrid(NoGrid)
    /\ \E m \in MatrixInputs : InitDisp(m)
    /\ InitObj
    /\ thread_safe = FALSE /\ devAnimating = FALSE

NextRender == RenderMatrix

SpecRender == InitAnyMatrix /\ [][NextRender]_vars

\* the staged patterns of the pattern table, one after the other
NextStaged ==
    \/ \E p \in StagedPatterns : PatternCall(p)
    \/ StageColumn
    \/ CommitColumns
    \/ WriteFails

SpecStaged == InitDefault /\ [][NextStaged]_vars

\* a Grid is constructed and used
NextGrid ==
    \/ \E d \in GridDims, f \in FillInputs :
           \/ GridConstruct(d[1], d[2], f, FALSE, <<>>)
           \/ \E ig \in GridLists : GridConstruct(d[1], d[2], f, TRUE, ig)
    \/ \E value \in GridLists : GridSet(value)
    \/ \E v \in FillInputs : FillValueSet(v)
    \/ \E x \in PixelXs, y \in PixelYs : GetPixelValue(x, y)
    \/ \E dx \in ShiftsX, dy \in ShiftsY, wrap \in BOOLEAN : GetShifted(dx, dy, wrap)
    \/ ShiftBack
    \/ \E raw \in FrameFiles, k \in FrameNumbers : FromFile(raw, k, 2, 3)

SpecGrid == InitDefault /\ [][NextGrid]_vars

\* Frames are constructed, played on a device, and their properties assigned
NextFrame ==
    \/ \E dims \in FrameDims, g \in FrameGrids, d \in DurationInputs :
          FrameConstruct(dims, TRUE, g, d)
    \/ \E dims \in FrameDims, d \in DurationInputs : FrameConstruct(dims, FALSE, <<>>, d)
    \/ \E dev \in FrameDevices, i \in BOOLEAN : FramePlay(dev, i)
    \/ \E new \in PlayCountInputs : NumberOfPlaysSet(new)
    \/ \E g \in FrameGrids : FrameGridSet(g)
    \/ \E d \in DurationInputs : FrameDurationSet(d)

SpecFrame == InitDefault /\ [][NextFrame]_vars

----------------------------------------------------------------------------
(* Claims *)

\* C1: on a thread-safe controller the commands of one call are never
\* interleaved on the wire with the commands of another thread's call: no
\* call has two separate runs of commands in the order of writes.
C1_NoInterleaving ==
    thread_safe =>
        \A i, j \in DOMAIN wireLog : i # j => wireLog[i] # wireLog[j]

\* C2: on a thread-safe controller no command of the polling loop and no
\* brightness command of the Breather are on the wire at the same time.
C2_MonitorBreatherSerialized ==
    thread_safe => ~(BreathThread \in wire /\ wire \cap MonThreads # {})

\* C3: two constructions for the same device identity yield the same
\* controller, and at most one controller per identity exists at any time.
C3_OneControllerPerIdentity ==
    \A x, y \in instances : x.dev = y.dev => x.id = y.id

\* the sound the claimed rule plays for a reading that follows reading prev
TransitionSound(prev, state) ==
    IF prev = Unplugged /\ state = Plugged THEN Plugged
    ELSE IF prev = Plugged /\ state = Unplugged THEN Unplugged
    ELSE None

\* C4: whenever the notification of a polled reading has been decided, the
\* plugged sound was played exactly if the reading polled before it was
\* unplugged and this one is plugged, the unplugged sound exactly if the
\* one before was plugged and this one is unplugged, and no sound otherwise.
C4_OncePerTransition ==
    \A t \in MonThreads :
        cur[t].notified => cur[t].snd = TransitionSound(cur[t].prev, cur[t].state)

\* C5 as stated: a plugged reading polled while last_state was unknown has
\* played the plugged sound once its notification is decided.
C5_FirstPluggedPlays ==
    \A t \in MonThreads :
        (cur[t].notified /\ cur[t].state = Plugged /\ cur[t].last0 = Unknown)
            => cur[t].snd = Plugged

\* C5 as amended: for a plugged reading the plugged sound is played exactly if
\* last_state was unplugged when the cycle began; with last_state unknown
\* (the first cycle) or plugged no sound is played.
C5_PluggedSoundOnlyAfterUnplugged ==
    \A t \in MonThreads :
        (cur[t].notified /\ cur[t].state = Plugged)
            => /\ cur[t].snd = Plugged <=> cur[t].last0 = Unplugged
               /\ cur[t].last0 = Unknown => cur[t].snd = None

C5_Witness ==
    /\ cur["loop"].notified
    /\ cur["loop"].state = Plugged
    /\ cur["loop"].last0 = Unknown
    /\ cur["loop"].snd = None

HasCmd(cmds, c, a) == \E i \in DOMAIN cmds : cmds[i].c = c /\ cmds[i].a = a

\* C6: in a completed cycle that read plugged, Zigzag was drawn exactly if
\* last_state was unplugged or unknown, Animate(true) was sent exactly if the
\* status query found the device not animating, and the device was animating
\* when the cycle ended.
C6_PluggedCycle ==
    \A t \in MonThreads :
        (cur[t].done /\ cur[t].state = Plugged)
            => /\ HasCmd(cur[t].cmds, "Pattern", 0)
                    <=> cur[t].last0 \in {Unplugged, Unknown}
               /\ HasCmd(cur[t].cmds, "Animate", 1)
                    <=> \E i \in DOMAIN cur[t].cmds :
                            cur[t].cmds[i].c = "AnimateQ" /\ ~cur[t].cmds[i].anim
               /\ cur[t].animEnd

IsWrite(x) == x.c # "AnimateQ"

\* C7: in a cycle that read unplugged the commands written after the status
\* query are Animate(false), only if the query found the device animating,
\* and then the fill with the polled percentage, in this order; the fill is
\* written with the animation off; a completed cycle has written the fill;
\* and last_state keeps its old value until the cycle is complete.
C7_UnpluggedCycle ==
    \A t \in MonThreads :
        cur[t].state = Unplugged =>
            LET cmds == cur[t].cmds
                w    == SelectSeq(cmds, IsWrite)
                sent == [i \in DOMAIN w |-> <<w[i].c, w[i].a>>]
                off  == <<"Animate", 0>>
                fill == <<"Percentage", cur[t].pct>>
            IN  /\ sent \in {<<>>, <<off>>, <<fill>>, <<off, fill>>}
                /\ sent # <<>> =>
                        cmds[1].c = "AnimateQ" /\ (cmds[1].anim <=> sent[1] = off)
                /\ \A i \in DOMAIN w : w[i].c = "Percentage" => ~w[i].anim
                /\ cur[t].done => Len(w) > 0 /\ sent[Len(w)] = fill
                /\ ~cur[t].done => last_state = cur[t].last0

C7_Witness ==
    /\ cur["loop"].done
    /\ cur["loop"].state = Unplugged
    /\ Len(cur["loop"].cmds) = 3
    /\ last_state = Unplugged

\* C8: a start() that finds the monitor running raises, starts no loop and
\* changes neither the running flag nor anything else of the monitor or the
\* device; a stop() that finds it not running raises the monitor-not-running
\* error, writes no command and leaves running, last_state and the cycle
\* counter as they were.
C8_RejectedCalls ==
    [][\A t \in MonThreads :
          /\ (mpc[t] = "start" /\ mpc'[t] # "start" /\ running)
                => /\ mexc'[t] = AlreadyRunning
                   /\ mpc'[t] = "idle"
                   /\ running'
                   /\ UNCHANGED <<last_state, cycles, polls, cur, wire, devAnimating>>
          /\ (mpc[t] = "stop" /\ mpc'[t] # "stop" /\ ~running)
                => /\ mexc'[t] = MonitorNotRunningError
                   /\ mpc'[t] = "idle"
                   /\ UNCHANGED <<running, last_state, cycles, wire, devAnimating>>
      ]_vars

C8_Witness ==
    /\ mexc["loop"] = AlreadyRunning
    /\ mexc["ctl"] = MonitorNotRunningError
    /\ running = FALSE

IOExceptions == {"NameError", "TypeError", "SerialException"}

\* C9: a polling cycle in which a device command or the status query hit an
\* I/O failure raises no exception out of the loop: the thread is still in
\* the loop with running true, or the loop has ended without error.
C9_LoopSurvivesIOFailure ==
    \A t \in MonThreads :
        cur[t].fault => mexc[t] \notin IOExceptions

\* C10: once the start() that a KeyboardInterrupt cut short has returned,
\* no error was raised to its caller, running is false and the animation is
\* off; the goodbye animation was not played.
C10_InterruptIsQuietStop ==
    \A t \in MonThreads :
        /\ mloc[t].h => \A i \in DOMAIN mloc[t].sent : mloc[t].sent[i] \in {"AnimateQ", "Animate"}
        /\ (mloc[t].intr /\ mpc[t] = "idle")
                => mexc[t] = None /\ ~running /\ ~devAnimating
\* C11: for every positive interval given to the constructor, the
\* battery_check_interval property reads back that interval, and the loop
\* sleeps exactly that interval after each polling cycle.
C11_IntervalAsConstructed ==
    /\ battery_check_interval = stored_interval
    /\ slept # 0 => slept = stored_interval

\* a send_command_raw call of thread t returns or raises in this step
SendEnds(t) == spc[t].pc # "idle" /\ spc'[t].pc = "idle"

\* C12: a send that fails with an I/O error returns None, raises nothing and
\* leaves the identity in the disconnected registry; a send that does not
\* fail leaves the registry as it was.
C12_FailedSendIsAbsorbed ==
    [][\A t \in TxThreads :
          SendEnds(t) =>
              IF spc'[t].failed
              THEN /\ spc'[t].ret = None
                   /\ spc'[t].exc = None
                   /\ InRegistry(spc'[t].dev, DISCONNECTED_DEVS')
              ELSE DISCONNECTED_DEVS' = DISCONNECTED_DEVS]_vars

\* C13: an identity in the disconnected registry stays in it, and a command
\* sent to an identity after a send to it has failed (the event that marks
\* it) writes nothing, returns None and raises nothing, whatever the port
\* does in between.
C13_DisconnectedStaysSilent ==
    [][/\ \A d \in Devices :
             InRegistry(d, DISCONNECTED_DEVS) => InRegistry(d, DISCONNECTED_DEVS')
       /\ \A t \in TxThreads :
             SendEnds(t) /\ spc'[t].marked =>
                 /\ ~spc'[t].wrote
                 /\ spc'[t].ret = None
                 /\ spc'[t].exc = None
                 /\ InRegistry(spc'[t].dev, DISCONNECTED_DEVS')]_vars

NoDuplicates(reg) == \A i, j \in DOMAIN reg : reg[i] = reg[j] => i = j

IsPrefix(a, b) == Len(a) <= Len(b) /\ \A i \in DOMAIN a : a[i] = b[i]

Ticks(b) == ticks'[b] = ticks[b] + 1

\* C15: the brightness every tick applies lies within the bounds in force at
\* that tick, whatever valid bounds and step were assigned while the loop ran.
C15_TickWithinBounds ==
    [][\A b \in BreathThreads :
          Ticks(b) => /\ min_brightness <= current'[b]
                      /\ current'[b] <= max_brightness]_vars

\* stop() returns to its caller in this step
StopReturns(t) == bcall[t].pc = "restore" /\ bcall'[t].pc # "restore"

C17_RestoresBrightnessAtStart ==
    [][\A t \in CtlThreads :
          StopReturns(t) /\ startBrightness # -1 => BrightnessGet' = startBrightness]_vars

\* C18: at most one loop thread is alive at any time.
C18_AtMostOneLoopThread ==
    Cardinality({b \in BreathThreads : bpc[b] \in {"enter", "loop"}}) <= 1

\* C19: after every assignment 0 <= min_brightness <= max_brightness <= 100,
\* 1 <= step <= 100 and fps > 0; an assignment that raises leaves the four
\* values as they were.
C19_SettersKeepConfigurationValid ==
    [][/\ 0 <= min_brightness' /\ min_brightness' <= max_brightness'
       /\ max_brightness' <= 100
       /\ 1 <= step' /\ step' <= 100
       /\ fps'.ty = "float" /\ fps'.v > 0
       /\ \A t \in CtlThreads :
             bcall'[t].n # bcall[t].n /\ bcall'[t].exc # None => UNCHANGED brCfg]_vars

\* C20: the loop starts ascending from the controller's brightness clamped
\* into the bounds; a tick follows a finished write, applies previous + step
\* (ascending) or previous - step (descending), or the bound itself once that
\* value reaches or passes it, reverses direction exactly then, and asks for
\* one brightness write.
C20_PingPong ==
    [][\A b \in BreathThreads :
          /\ bpc[b] = "enter" /\ bpc'[b] = "loop" =>
                /\ current'[b] = Max(min_brightness, Min(BrightnessGet, max_brightness))
                /\ going_up'[b]
          /\ Ticks(b) =>
                LET target  == IF going_up[b] THEN current[b] + step ELSE current[b] - step
                    bound   == IF going_up[b] THEN max_brightness ELSE min_brightness
                    reached == IF going_up[b] THEN target >= bound ELSE target <= bound
                IN  /\ stack[b] = <<>>
                    /\ current'[b] = IF reached THEN bound ELSE target
                    /\ going_up'[b] = (going_up[b] # reached)
                    /\ stack'[b] = <<Frame("brightness=", IntVal(current'[b]), 0)>>]_vars

\* a loop thread has turned round at the upper and then at the lower bound
C20_Witness ==
    \E b \in BreathThreads :
        /\ bpc[b] = "loop"
        /\ ticks[b] = 2
        /\ going_up[b]
        /\ current[b] = min_brightness
        /\ brightness = current[b]

\* the brightness call of thread t in progress was given x
BrightnessCallOf(t, x) ==
    /\ InCall(t)
    /\ stack[t][1].m \in {"set_brightness", "brightness="}
    /\ stack[t][1].a = x

\* C21: set_brightness(p) and brightness = p with p < 0 or p > 100 (-1, 101)
\* end with a validation error; no step of such a call writes a command to
\* the device or changes the stored brightness
C21_OutOfRangeRejected ==
    [][\A t \in CtlThreads, x \in {IntVal(-1), IntVal(101)} :
          BrightnessCallOf(t, x) /\ stack'[t] # stack[t]
              => /\ wireLog' = wireLog
                 /\ devBrightness' = devBrightness
                 /\ brightness' = brightness
                 /\ ~InCall(t)' => cexc'[t] = "ValueError"]_vars

\* both threads were turned away and nothing reached the device or the field
C21_Witness ==
    /\ \A t \in CtlThreads : calls[t] = 1 /\ ~InCall(t) /\ cexc[t] = "ValueError"
    /\ wireLog = <<>>
    /\ devBrightness = -1
    /\ brightness = -1

\* C22: setting the brightness to the string "75%" succeeds, sends the
\* Brightness command for 75 percent, and the brightness then reads 75
C22_PercentStringAccepted ==
    [][\A t \in CtlThreads :
          BrightnessCallOf(t, Val("str", 75)) /\ ~InCall(t)'
              => /\ cexc'[t] = None
                 /\ devBrightness' = percentage_to_value(75, HwMax)
                 /\ brightness' = 75]_vars

\* C23: on a thread-safe controller, once the concurrent brightness
\* assignments of two threads have completed, the stored brightness is the
\* value the last Brightness command carried
C23_StoredIsLastSent ==
    (/\ thread_safe
     /\ \A t \in CtlThreads : calls[t] = 1 /\ ~InCall(t) /\ cexc[t] = None)
        => devBrightness = percentage_to_value(brightness, HwMax)

\* the top-level call m(g) of thread t returns to its caller
Returns(t, m, g) ==
    /\ Len(stack[t]) = 1
    /\ stack[t][1].m = m /\ stack[t][1].a = g
    /\ stack'[t] = <<>>
    /\ cexc'[t] = None

\* C24: after every successful draw(g) / draw_grid(g) controller.grid is g,
\* and after clear() it is the blank grid
C24_GridIsDisplayed ==
    [][\A t \in CtlThreads :
          /\ \A g \in Grids :
                Returns(t, "draw", g) \/ Returns(t, "draw_grid", g) => grid' = g
          /\ Returns(t, "clear", 0) => grid' = BlankGrid]_vars

\* the matrix a Draw payload decodes to, with i = x + 9 * y
Decoded(vals) ==
    {c \in Cells : Bit(vals[((c[1] + 9 * c[2]) \div 8) + 1], (c[1] + 9 * c[2]) % 8) = 1}

\* C25: the Draw payload render_matrix builds is 39 bytes in which bit
\* (i mod 8) of byte (i div 8) is cell (x, y) for i = x + 9 * y, so that
\* decoding it gives the matrix back, and bits 306..311 are 0
C25_DrawPayloadRoundTrip ==
    rendering.fn = "render_matrix" =>
        /\ Len(written) = 1 /\ written[1].cmd = "Draw"
        /\ LET vals == written[1].vals
           IN  /\ Len(vals) = 39
               /\ \A b \in DOMAIN vals : vals[b] \in 0..255
               /\ \A x \in 0..8, y \in 0..33 :
                     Bit(vals[((x + 9 * y) \div 8) + 1], (x + 9 * y) % 8)
                         = IF <<x, y>> \in matrix THEN 1 ELSE 0
               /\ Decoded(vals) = matrix
               /\ \A i \in 306..311 : Bit(vals[(i \div 8) + 1], i % 8) = 0

\* the four corners and the cells at the first byte border were rendered
C25_Witness ==
    /\ rendering.fn = "render_matrix"
    /\ matrix = BoundaryCells
    /\ Decoded(written[1].vals) = BoundaryCells

\* C26: a staged render writes StageGreyCol for the columns 0..8, each once
\* and in increasing order, then one DrawGreyColBuffer, and no
\* DrawGreyColBuffer before all 9 columns
C26_ColumnsThenOneCommit ==
    /\ Len(written) <= 10
    /\ \A i \in DOMAIN written :
          IF i <= 9 THEN written[i].cmd = "StageGreyCol" /\ written[i].x = i - 1
          ELSE written[i].cmd = "DrawGreyColBuffer"
    /\ rendering.pc = "done" => Len(written) = 10

\* a checkerboard was staged and committed
C26_Witness ==
    /\ rendering.pc = "done"
    /\ rendering.fn = "checkerboard"
    /\ Len(written) = 10
    /\ written[10].cmd = "DrawGreyColBuffer"

\* C27: every StageGreyCol command carries exactly 34 values after the
\* column index, for every pattern and parameter of the pattern table
C27_ColumnHas34Values ==
    \A i \in DOMAIN written :
        written[i].cmd = "StageGreyCol" => Len(written[i].vals) = 34

\* the data of a Grid: width columns of height cells, each 0 or 1
WellFormed(obj) ==
    /\ Len(obj.cells) = obj.width
    /\ \A c \in DOMAIN obj.cells :
          /\ Len(obj.cells[c]) = obj.height
          /\ \A r \in DOMAIN obj.cells[c] : obj.cells[c][r] \in {0, 1}

SameShape(a, b) == a.live /\ b.live /\ a.width = b.width /\ a.height = b.height

\* C28: whatever is done to a Grid (construction, grid assignment, fill_value
\* assignment, get_shifted), its width and height stay those of its
\* construction and its data is width columns of height cells in {0,1}; a
\* rejected grid assignment raises and leaves the data unchanged
C28_GridInvariants ==
    [][/\ gridObj'.live => WellFormed(gridObj')
       /\ gridObj.live => SameShape(gridObj, gridObj')
       /\ gridOp'.op = "__init__" /\ gridOp'.exc = None
             => gridObj'.width = gridOp'.arg.w /\ gridObj'.height = gridOp'.arg.h
       /\ gridOp'.op = "get_shifted" /\ gridOp'.exc = None
             => WellFormed(gridOp'.ret) /\ SameShape(gridObj, gridOp'.ret)
       /\ gridOp'.op = "grid=" /\ ~WellFormed(NewGrid(gridObj.width, gridObj.height, 0,
                                                     gridOp'.arg))
             => gridOp'.exc = "ValueError" /\ gridObj' = gridObj]_vars

\* a Grid holding lit cells has turned an assignment down
C28_Witness ==
    /\ gridObj.live
    /\ gridOp.op = "grid="
    /\ gridOp.exc = "ValueError"
    /\ gridObj.cells = <<<<1, 0, 0>>, <<0, 1, 1>>>>

\* C29: no operation changes the cells of an existing Grid
C29_ReadOnly ==
    [][gridObj.live => gridObj'.cells = gridObj.cells]_vars

\* C29, as the code has it: the cells of an existing Grid change only by a
\* grid assignment, which replaces them with the valid list assigned, and its
\* fill_value only by a fill_value assignment of 0 or 1; get_shifted returns a
\* new Grid of the same shape and fill_value and leaves the original as it was
C29_ChangedOnlyBySetters ==
    [][gridObj.live =>
          /\ SameShape(gridObj, gridObj')
          /\ gridObj'.cells # gridObj.cells
                => /\ gridOp'.op = "grid=" /\ gridOp'.exc = None
                   /\ gridObj'.cells = gridOp'.arg
                   /\ WellFormed(gridObj')
          /\ gridObj'.fill_value # gridObj.fill_value
                => /\ gridOp'.op = "fill_value=" /\ gridOp'.exc = None
                   /\ gridObj'.fill_value = gridOp'.arg
                   /\ gridOp'.arg \in {0, 1}
          /\ gridOp'.op = "get_shifted"
                => /\ gridObj' = gridObj
                   /\ gridOp'.exc = None
                         => /\ SameShape(gridObj, gridOp'.ret)
                            /\ gridOp'.ret.fill_value = gridObj.fill_value]_vars

\* get_shifted has returned a Grid that differs from the one it was called on
C29_Witness ==
    /\ gridObj.live
    /\ gridOp.op = "get_shifted"
    /\ gridOp.exc = None
    /\ gridOp.ret.cells # gridObj.cells

\* C30: get_pixel_value(x, y) returns the cell at column x, row y (the value
\* init_grid[x][y] of the list the Grid was built from) when 0 <= x < width
\* and 0 <= y < height, raises IndexError for every other (x, y), negative
\* indices included, and leaves the Grid unchanged
C30_PixelValueBounds ==
    [][/\ gridOp'.op = "__init__" /\ gridOp'.exc = None /\ gridOp'.arg.withGrid
             => gridObj'.cells = gridOp'.arg.init_grid
       /\ gridOp'.op = "get_pixel_value"
             => LET x == gridOp'.arg[1]
                    y == gridOp'.arg[2]
                IN  /\ gridObj' = gridObj
                    /\ IF 0 <= x /\ x < gridObj.width /\ 0 <= y /\ y < gridObj.height
                       THEN /\ gridOp'.exc = None
                            /\ gridOp'.ret = gridObj.cells[x + 1][y + 1]
                       ELSE gridOp'.exc = "IndexError"]_vars

\* a negative column index was turned down, on a Grid built from a list
C30_Witness ==
    /\ gridObj.live
    /\ gridOp.op = "get_pixel_value"
    /\ gridOp.arg = <<-1, 0>>
    /\ gridOp.exc = "IndexError"

\* C31: get_shifted(dx, dy, wrap=False) moves the content right for dx > 0
\* and down for dy > 0: cell (c, r) of the result is the original cell
\* (c - dx, r - dy) when that lies inside the grid and fill_value otherwise;
\* [[1,0],[0,1]] with fill 0 shifted by dx = 1, dy = 0 gives [[0,0],[1,1]]
C31_ShiftMovesRightAndDown ==
    [][gridOp'.op = "get_shifted" /\ ~gridOp'.arg[3] /\ gridObj.fill_value \in {0, 1}
          => LET dx == gridOp'.arg[1]
                 dy == gridOp'.arg[2]
             IN  /\ gridOp'.exc = None
                 /\ \A c \in 0..(gridObj.width - 1), r \in 0..(gridObj.height - 1) :
                       gridOp'.ret.cells[c + 1][r + 1] =
                           IF /\ 0 <= c - dx /\ c - dx < gridObj.width
                              /\ 0 <= r - dy /\ r - dy < gridObj.height
                           THEN gridObj.cells[c - dx + 1][r - dy + 1]
                           ELSE gridObj.fill_value
                 /\ (/\ gridObj.cells = <<<<1, 0>>, <<0, 1>>>>
                     /\ gridObj.fill_value = 0 /\ dx = 1 /\ dy = 0)
                       => gridOp'.ret.cells = <<<<0, 0>>, <<1, 1>>>>]_vars

\* C32: get_shifted(dx, dy, wrap=True) followed by get_shifted(-dx, -dy,
\* wrap=True) gives a Grid with the cells, width, height and fill_value of
\* the original, for dx, dy positive, negative, zero and beyond the dimensions
C32_WrapShiftRoundTrip ==
    [][gridOp'.op = "get_shifted.get_shifted"
          => LET first  == gridOp'.arg[1]
                 second == gridOp'.arg[2]
             IN  (/\ first[3] /\ second[3]
                  /\ second[1] = 0 - first[1] /\ second[2] = 0 - first[2])
                     => /\ gridOp'.exc = None
                        /\ gridOp'.ret.cells = gridObj.cells
                        /\ SameShape(gridObj, gridOp'.ret)
                        /\ gridOp'.ret.fill_value = gridObj.fill_value]_vars

\* a Grid with lit cells came back from a shift beyond its dimensions
C32_Witness ==
    /\ gridObj.live
    /\ gridOp.op = "get_shifted.get_shifted"
    /\ gridOp.arg = <<<<3, -4, TRUE>>, <<-3, 4, TRUE>>>>
    /\ gridOp.exc = None
    /\ gridObj.cells = <<<<1, 0, 0>>, <<0, 1, 1>>>>
    /\ gridOp.ret.cells = gridObj.cells

\* C33: Grid.from_file on a file of n frame records raises an out-of-range
\* error for every frame_number outside 0..n-1, negative numbers and the
\* empty list included, and for frame_number in 0..n-1 returns the Grid of
\* exactly that record
C33_FrameNumberInRange ==
    [][gridOp'.op = "from_file"
          => LET raw == gridOp'.arg[1]
                 k   == gridOp'.arg[2]
             IN  IF 0 <= k /\ k < Len(raw)
                 THEN gridOp'.exc = None /\ gridOp'.ret.cells = raw[k + 1].grid
                 ELSE gridOp'.exc = "IndexError"]_vars

C35_NoCycleAfterStop ==
    [][/\ cycles' \in {cycles, cycles + 1}
       /\ ~running => cycles' = cycles /\ polls' = polls]_vars

\* C36: when stop() is called from another thread in the middle of a polling
\* cycle, the loop writes no device command once stop() has begun its goodbye
\* animation: the two command sequences never interleave
C36_NoLoopCommandAfterGoodbye ==
    [][Len(cur'["loop"].cmds) > Len(cur["loop"].cmds)
          => ~(mpc["ctl"] \in StopLabels \cup {"tx"}
               /\ ~mloc["ctl"].ws /\ mloc["ctl"].sent # <<>>)]_vars

\* C37: for every p in 0..100, 0 included, once set_brightness(p) or the
\* assignment brightness = p has succeeded (no other thread having set the
\* brightness), reading controller.brightness returns p
C37_ReadsBackWhatWasSet ==
    [][\A t \in CtlThreads, x \in {IntVal(0), IntVal(40), IntVal(100)} :
          (/\ BrightnessCallOf(t, x) /\ ~InCall(t)' /\ cexc'[t] = None
           /\ \A u \in CtlThreads \ {t} : calls[u] = 0)
              => BrightnessGet' = x.v]_vars

\* C38: on a thread-safe controller every read of cmd_lock returns the same
\* lock object, however the first accesses of several threads interleave; on
\* a controller that is not thread-safe every read returns None
C38_OneLockForLife ==
    \A t \in CtlThreads, u \in CtlThreads :
        \A i \in DOMAIN stack[t], j \in DOMAIN stack[u] :
            /\ ~thread_safe => stack[t][i].lk = 0 /\ cmd_lock = 0
            /\ (thread_safe /\ stack[t][i].lk # 0 /\ stack[u][j].lk # 0)
                  => stack[t][i].lk = stack[u][j].lk

\* C39: on a thread-safe controller identify, draw_percentage(clear_first),
\* halt_animation and clear, which call other lock-taking methods on the same
\* thread, always come back (no deadlock on the controller's own lock), and a
\* thread that has returned or raised owns no lock
C39_NestedCallsReturn ==
    /\ [](\A t \in CtlThreads :
            ~InCall(t) => \A l \in DOMAIN rlocks : rlocks[l].owner # t)
    /\ \A t \in CtlThreads : InCall(t) ~> ~InCall(t)

\* identify -> clear -> draw_grid: three frames of one thread hold one lock
C39_Witness ==
    \E t \in CtlThreads :
        /\ Len(stack[t]) = 3
        /\ stack[t][1].m = "identify" /\ stack[t][2].m = "clear"
        /\ stack[t][3].m = "draw_grid"
        /\ \A i \in 1..3 : stack[t][i].held /\ stack[t][i].lk = stack[t][1].lk
        /\ rlocks[stack[t][1].lk] = [owner |-> t, count |-> 3]

\* C40: while the Breather keeps running (its loop alive, no setter called)
\* with min_brightness < max_brightness, the brightness it applies is
\* max_brightness infinitely often and min_brightness infinitely often, for
\* every valid step, a step larger than max_brightness - min_brightness too
C40_BreathReachesBothBounds ==
    []((min_brightness < max_brightness) /\ cexc[BreathThread] = None)
        => /\ []<>(bpc[BreathThread] = "loop" /\ ~InCall(BreathThread)
                   /\ brightness = max_brightness)
           /\ []<>(bpc[BreathThread] = "loop" /\ ~InCall(BreathThread)
                   /\ brightness = min_brightness)

\* the loop has turned round at max_brightness and come down to a
\* min_brightness of 10 in steps of 3
C40_Witness ==
    /\ bpc[BreathThread] = "loop" /\ ~InCall(BreathThread)
    /\ min_brightness = 10 /\ max_brightness = 20 /\ step = 3
    /\ brightness = min_brightness
    /\ current[BreathThread] = min_brightness
    /\ going_up[BreathThread]
    /\ ticks[BreathThread] = MaxTicks

====
